---- MODULE Spec2Model ----
(***************************************************************************)
(* A model of the telescope mount firmware: the L6470 command layer        *)
(* (src/docs/L6470_driver.py), the SPI transport's byte splitting          *)
(* (src/docs/stmspi.py) and the per-axis motor task                        *)
(* (src/telescope_driver/main.py).                                         *)
(*                                                                         *)
(* A MotorTask is modelled as an object: its methods run_task, set_param   *)
(* and shut_off are whole-handler operators on the object's fields, and    *)
(* every driver call a handler makes is appended to a log in call order.   *)
(* A Python exception ends the handler at the raising statement and leaves *)
(* the fields as they were at that point; the object stays usable.         *)
(***************************************************************************)
EXTENDS Integers, Sequences, FiniteSets, TLC

VARIABLES task, pyb, moving, tick, call, fw, bus, pi

vars == <<task, pyb, moving, tick, call, fw, bus, pi>>

(***************************************************************************)
(* Integer helpers: Python's >>, & and bit tests on unbounded integers.    *)
(***************************************************************************)
Pow2(n) == 2 ^ n

\* send >> n (floor shift, also for negative send)
Shr(send, n) == send \div Pow2(n)

Bit(w, i) == Shr(w, i) % 2

RECURSIVE BitAnd(_, _)
\* a & b for a non-negative b
BitAnd(a, b) ==
    IF b = 0 THEN 0
    ELSE (a % 2) * (b % 2) + 2 * BitAnd(a \div 2, b \div 2)

(***************************************************************************)
(* Constants of main.py.                                                   *)
(***************************************************************************)
_ERR_FLAG_MASK == 32256
_ERR_CMD_MASK == 384
_STATE_INIT == 0
_STATE_IDLE == 1
_STATE_BUSY == 2
_STATE_ERR == 3

\* Python's None as a return value (a bare `return`, or a function that
\* falls off its end); also the value of an input a handler never read.
None == -2

(***************************************************************************)
(* Strings as sequences of characters, with the str methods main.py uses.  *)
(***************************************************************************)
startswith(s, p) == Len(s) >= Len(p) /\ SubSeq(s, 1, Len(p)) = p

\* `sub in s`
contains(s, sub) ==
    \E i \in 1..(Len(s) - Len(sub) + 1) : SubSeq(s, i, i + Len(sub) - 1) = sub

RECURSIVE replace(_, _)
\* s.replace(old, '') : every non-overlapping occurrence removed, left to right
replace(s, old) ==
    IF Len(s) < Len(old) THEN s
    ELSE IF startswith(s, old) THEN replace(SubSeq(s, Len(old) + 1, Len(s)), old)
    ELSE <<Head(s)>> \o replace(Tail(s), old)

Digits == {"0", "1", "2", "3", "4", "5", "6", "7", "8", "9"}

RECURSIVE strip(_)
strip(s) ==
    IF s = <<>> THEN s
    ELSE IF Head(s) = " " THEN strip(Tail(s))
    ELSE IF s[Len(s)] = " " THEN strip(SubSeq(s, 1, Len(s) - 1))
    ELSE s

\* float(text) succeeds (no ValueError): optional sign, digits with at most
\* one decimal point and at least one digit, surrounding blanks ignored.
float_ok(text) ==
    LET t == strip(text)
        u == IF t # <<>> /\ Head(t) \in {"+", "-"} THEN Tail(t) ELSE t
    IN  /\ \A i \in 1..Len(u) : u[i] \in Digits \cup {"."}
        /\ \E i \in 1..Len(u) : u[i] \in Digits
        /\ Cardinality({i \in 1..Len(u) : u[i] = "."}) <= 1

(***************************************************************************)
(* The register table of the driver.                                       *)
(***************************************************************************)
REGISTER_DICT ==
    [ABS_POS |-> <<1, 22>>, EL_POS |-> <<2, 9>>, MARK |-> <<3, 22>>,
     SPEED |-> <<4, 20>>, ACC |-> <<5, 12>>, DEC |-> <<6, 12>>,
     MAX_SPEED |-> <<7, 10>>, MIN_SPEED |-> <<8, 13>>, FS_SPD |-> <<21, 10>>,
     KVAL_HOLD |-> <<9, 8>>, KVAL_RUN |-> <<10, 8>>, KVAL_ACC |-> <<11, 8>>,
     KVAL_DEC |-> <<12, 8>>, INT_SPEED |-> <<13, 14>>, ST_SLP |-> <<14, 8>>,
     FN_SLP_ACC |-> <<15, 8>>, FN_SLP_DEC |-> <<16, 8>>, K_THERM |-> <<17, 4>>,
     ADC_OUT |-> <<18, 5>>, OCD_TH |-> <<19, 4>>, STALL_TH |-> <<20, 7>>,
     STEP_MODE |-> <<22, 8>>, ALARM_EN |-> <<23, 8>>, CONFIG |-> <<24, 16>>,
     STATUS |-> <<25, 16>>, RESERVED_A |-> <<26, 0>>, RESERVED_B |-> <<27, 0>>]

(***************************************************************************)
(* The status table of the driver: for each flag bit its OK value.         *)
(***************************************************************************)
STATUS_DICT ==
    [bit_addr \in {14, 13, 12, 11, 10, 9, 8, 7, 3, 2, 15, 4, 6, 1, 0} |->
        CASE bit_addr \in {14, 13, 12, 11, 10, 9} -> 1
          [] bit_addr \in {8, 7, 3, 2, 15, 6} -> 0
          [] bit_addr \in {4, 1, 0} -> 1]

\* ((status & 1<<bit_addr)>>bit_addr)==self.STATUS_DICT[bit_addr][1]
flag_ok(status, bit_addr) ==
    Shr(BitAnd(status, Pow2(bit_addr)), bit_addr) = STATUS_DICT[bit_addr]

(***************************************************************************)
(* The trace of one handler: the object's fields, the driver calls made so *)
(* far, what was printed (each line with the number of driver calls made   *)
(* before it), the exception that ended the handler, the value returned.   *)
(***************************************************************************)
Begin(self) ==
    [self |-> self, log |-> <<>>, out |-> <<>>, exc |-> "none", ret |-> None]

\* a call of a method of self._driver
Send(t, c) == [t EXCEPT !.log = Append(@, c)]

\* print(...)
Say(t, kind) == [t EXCEPT !.out = Append(@, [kind |-> kind, at |-> Len(t.log)])]

Raise(t, e) == [t EXCEPT !.exc = e]

Return(t, v) == [t EXCEPT !.ret = v]

\* a wrong mask test that looks at the command-error bits only
err_mask_fails_cmd_only(stat) == BitAnd(stat, _ERR_CMD_MASK) # 0

\* a wrong recovery test that looks at the fault-flag bits only
err_mask_ok_flags_only(stat) == BitAnd(stat, _ERR_FLAG_MASK) = _ERR_FLAG_MASK

(***************************************************************************)
(* The error-mask test, as main.py writes it.                              *)
(***************************************************************************)
\* (stat & _ERR_CMD_MASK) or ((stat & _ERR_FLAG_MASK) != _ERR_FLAG_MASK)
err_mask_fails(stat) ==
    \/ BitAnd(stat, _ERR_CMD_MASK) # 0
    \/ BitAnd(stat, _ERR_FLAG_MASK) # _ERR_FLAG_MASK

\* (not (stat & _ERR_CMD_MASK)) and ((stat & _ERR_FLAG_MASK) == _ERR_FLAG_MASK)
err_mask_ok(stat) ==
    /\ BitAnd(stat, _ERR_CMD_MASK) = 0
    /\ BitAnd(stat, _ERR_FLAG_MASK) = _ERR_FLAG_MASK

\* a wrong busy test, reading bit 0 (HiZ) instead of bit 1
busy_flag_bit0(stat) == BitAnd(stat, 1) # 0

\* stat & 1<<1
busy_flag_set(stat) == BitAnd(stat, 2) # 0

(***************************************************************************)
(* L6470.print_status: prints the header line, then the first print of the *)
(* flag loop evaluates end=="" with no name `end` bound: NameError.        *)
(***************************************************************************)
print_status(t, status) == Raise(Say(t, "Driver Status"), "NameError")

\* L6470.SetParam as the motor task sees it: the register lookup comes first
driver_SetParam(t, register, value) ==
    IF register \in DOMAIN REGISTER_DICT
    THEN Send(t, <<"SetParam", register, value>>)
    ELSE Raise(t, "KeyError")

(***************************************************************************)
(* MotorTask.set_param.  p1 and p2 are the status words the chip answers   *)
(* to the GetStatus after the first and after the second write.            *)
(***************************************************************************)
set_param_once(t, param_str, value) ==
    LET a == Send(t, <<"GetStatus">>)
        b == driver_SetParam(a, param_str, value)
    IN  IF b.exc # "none" THEN b ELSE Send(b, <<"GetStatus">>)

\* a wrong set_param that writes once and never tries again
set_param_no_retry(t, param_str, value, p1, p2) ==
    LET a == set_param_once(t, param_str, value)
    IN  IF a.exc # "none" THEN a
        ELSE IF err_mask_fails(p1)
        THEN print_status(Say(a, "Error setting parameter"), p1)
        ELSE a

set_param(t, param_str, value, p1, p2) ==
    LET a == set_param_once(t, param_str, value)
    IN  IF a.exc # "none" THEN a
        ELSE IF err_mask_fails(p1)
        THEN LET b == set_param_once(a, param_str, value)
             IN  IF b.exc # "none" THEN b
                 ELSE IF err_mask_fails(p2)
                 THEN print_status(Say(b, "Error setting parameter"), p2)
                 ELSE b
        ELSE a

\* a wrong shut_off that sends the axis back to Init
shut_off_reinit(t) ==
    LET a == Send(t, <<"SoftHiZ">>)
    IN  [a EXCEPT !.self._state = _STATE_INIT, !.self._err = 0]

(***************************************************************************)
(* MotorTask.shut_off                                                      *)
(***************************************************************************)
shut_off(t) ==
    LET a == Send(t, <<"SoftHiZ">>)
    IN  [a EXCEPT !.self._state = _STATE_IDLE, !.self._err = 0]

(***************************************************************************)
(* MotorTask.get_angle: the two reads, then the gear ratio names           *)
(* self._N_D, an attribute __init__ never binds (it binds _N_W):           *)
(* AttributeError, and no value is returned.  step_count and step_reg are  *)
(* the chip's answers to the two reads.                                    *)
(***************************************************************************)
get_angle(t, step_count, step_reg) ==
    Raise(Send(Send(t, <<"GetParam", "ABS_POS">>), <<"GetParam", "STEP_MODE">>),
          "AttributeError")

(***************************************************************************)
(* MotorTask.run_task, one branch per lifecycle state.  stat is the status *)
(* word the chip answers to the tick's first GetStatus, reg the value the  *)
(* chip answers to the tick's GetParam, p1 and p2 the status words         *)
(* set_param reads, pyb_bound whether the global name pyb is bound.        *)
(***************************************************************************)
\* pyb.udelay(10): NameError unless the name pyb is bound in the module
pyb_udelay(t, pyb_bound) == IF pyb_bound THEN t ELSE Raise(t, "NameError")

\* a wrong Init branch that enters Idle without sending SoftHiZ
run_init_no_brake(t, stat) ==
    LET a == Send(t, <<"GetStatus">>)
    IN  IF stat = 0 \/ stat = 65535
        THEN Return(Say(a, "Cannot connect"), None)
        ELSE IF err_mask_fails(stat)
        THEN LET b == Say(a, "Init error")
             IN  Return([b EXCEPT !.self._state = _STATE_INIT], b.self._err)
        ELSE LET b == Say(a, "init finished successfully")
             IN  Return([b EXCEPT !.self._state = _STATE_IDLE], b.self._err)

\* the Init branch of run_task
run_init(t, stat) ==
    LET a == Send(t, <<"GetStatus">>)
    IN  IF stat = 0 \/ stat = 65535
        THEN Return(Say(a, "Cannot connect"), None)
        ELSE IF err_mask_fails(stat)
        THEN LET b == Say(a, "Init error")
             IN  Return([b EXCEPT !.self._state = _STATE_INIT], b.self._err)
        ELSE LET b == Send(Say(a, "init finished successfully"), <<"SoftHiZ">>)
             IN  Return([b EXCEPT !.self._state = _STATE_IDLE], b.self._err)

\* a wrong slew/turn branch that reads STEP_MODE before it parses the angle
run_angle_read_first(t, cmd_code, keyword) ==
    LET a == Send(t, <<"GetParam", "STEP_MODE">>)
    IN  IF ~ float_ok(replace(cmd_code, keyword))
        THEN Return(Say(a, "invalid angle"), a.self._err)
        ELSE Raise(a, "NameError")

\* the slew and turn branches: float() of the text after the keyword, then
\* GetParam('STEP_MODE'), then the step arithmetic, which names the globals
\* _N_F, _N_D and _STPD that nothing binds: NameError, not a ValueError.
run_angle(t, cmd_code, keyword) ==
    IF ~ float_ok(replace(cmd_code, keyword))
    THEN Return(Say(t, "invalid angle"), t.self._err)
    ELSE Raise(Send(t, <<"GetParam", "STEP_MODE">>), "NameError")

run_track(t, pyb_bound) ==
    LET a == pyb_udelay(Send(t, <<"SoftStop">>), pyb_bound)
    IN  IF a.exc # "none" THEN a
        ELSE LET b == Send(a, <<"Run", 1000, 1>>)
             IN  Return([b EXCEPT !.self._state = _STATE_BUSY], b.self._err)

\* `self.state = _STATE_BUSY` binds a new attribute `state`; _state is kept
run_mark(t, cmd_code, reg, p1, p2) ==
    IF contains(cmd_code, <<"s", "e", "t">>)
    THEN LET a == set_param(Send(t, <<"GetParam", "ABS_POS">>), "MARK", reg, p1, p2)
         IN  IF a.exc # "none" THEN a ELSE Return(a, a.self._err)
    ELSE LET a == Send(t, <<"GoMark">>)
         IN  Return([a EXCEPT !.self.state = _STATE_BUSY], a.self._err)

run_home(t, cmd_code, p1, p2, pyb_bound) ==
    IF contains(cmd_code, <<"s", "e", "t">>)
    THEN LET a == pyb_udelay(Send(t, <<"SoftStop">>), pyb_bound)
             b == IF a.exc # "none" THEN a ELSE set_param(a, "ABS_POS", 0, p1, p2)
         IN  IF b.exc # "none" THEN b ELSE Return(b, b.self._err)
    ELSE LET a == Send(t, <<"GoHome">>)
         IN  Return([a EXCEPT !.self.state = _STATE_BUSY], a.self._err)

\* a wrong Idle branch that takes every request beginning with 'off' for 'off'
run_idle_off_prefix(t, cmd_code, stat, reg, p1, p2, pyb_bound) ==
    LET a == Send(t, <<"GetStatus">>)
    IN  IF err_mask_fails(stat)
        THEN print_status(Say([a EXCEPT !.self._state = _STATE_ERR],
                              "Error in driver"), stat)
        ELSE IF startswith(cmd_code, <<"s", "l", "e", "w">>)
        THEN run_angle(a, cmd_code, <<"s", "l", "e", "w">>)
        ELSE IF startswith(cmd_code, <<"t", "u", "r", "n">>)
        THEN run_angle(a, cmd_code, <<"t", "u", "r", "n">>)
        ELSE IF cmd_code = <<"t", "r", "a", "c", "k">>
        THEN run_track(a, pyb_bound)
        ELSE IF startswith(cmd_code, <<"m", "a", "r", "k">>)
        THEN run_mark(a, cmd_code, reg, p1, p2)
        ELSE IF startswith(cmd_code, <<"h", "o", "m", "e">>)
        THEN run_home(a, cmd_code, p1, p2, pyb_bound)
        ELSE IF cmd_code = <<"s", "t", "o", "p">>
        THEN Return(Send(a, <<"SoftStop">>), a.self._err)
        ELSE IF startswith(cmd_code, <<"o", "f", "f">>)
        THEN Return(Send(a, <<"SoftHiZ">>), a.self._err)
        ELSE Return(a, a.self._err)

\* the Idle branch of run_task
run_idle(t, cmd_code, stat, reg, p1, p2, pyb_bound) ==
    LET a == Send(t, <<"GetStatus">>)
    IN  IF err_mask_fails(stat)
        THEN print_status(Say([a EXCEPT !.self._state = _STATE_ERR],
                              "Error in driver"), stat)
        ELSE IF startswith(cmd_code, <<"s", "l", "e", "w">>)
        THEN run_angle(a, cmd_code, <<"s", "l", "e", "w">>)
        ELSE IF startswith(cmd_code, <<"t", "u", "r", "n">>)
        THEN run_angle(a, cmd_code, <<"t", "u", "r", "n">>)
        ELSE IF cmd_code = <<"t", "r", "a", "c", "k">>
        THEN run_track(a, pyb_bound)
        ELSE IF startswith(cmd_code, <<"m", "a", "r", "k">>)
        THEN run_mark(a, cmd_code, reg, p1, p2)
        ELSE IF startswith(cmd_code, <<"h", "o", "m", "e">>)
        THEN run_home(a, cmd_code, p1, p2, pyb_bound)
        ELSE IF cmd_code = <<"s", "t", "o", "p">>
        THEN Return(Send(a, <<"SoftStop">>), a.self._err)
        ELSE IF cmd_code = <<"o", "f", "f">>
        THEN Return(Send(a, <<"SoftHiZ">>), a.self._err)
        ELSE Return(a, a.self._err)

\* a wrong Error branch that sets the motor running again once the status
\* word is clean
run_err_resumes(t, stat) ==
    LET a == Send(t, <<"GetStatus">>)
        b == IF err_mask_ok(stat)
             THEN Send([a EXCEPT !.self._state = _STATE_IDLE, !.self._err = 0],
                       <<"Run", 1000, 1>>)
             ELSE a
    IN  Return(b, b.self._err)

run_err(t, stat) ==
    LET a == Send(t, <<"GetStatus">>)
        b == IF err_mask_ok(stat)
             THEN [a EXCEPT !.self._state = _STATE_IDLE, !.self._err = 0]
             ELSE a
    IN  Return(b, b.self._err)

\* a wrong Busy branch that asks for the status again while the chip is busy
run_busy_polls_again(t, stat) ==
    LET a == Send([t EXCEPT !.self._err = 2], <<"GetStatus">>)
        b == IF busy_flag_set(stat)
             THEN [a EXCEPT !.self._state = _STATE_IDLE, !.self._err = 0]
             ELSE Send(a, <<"GetStatus">>)
    IN  Return(b, b.self._err)

run_busy(t, stat) ==
    LET a == Send([t EXCEPT !.self._err = 2], <<"GetStatus">>)
        b == IF busy_flag_set(stat)
             THEN [a EXCEPT !.self._state = _STATE_IDLE, !.self._err = 0]
             ELSE a
    IN  Return(b, b.self._err)

run_unknown(t) ==
    LET a == Send(Say(t, "Unknown state"), <<"SoftHiZ">>)
    IN  Return([a EXCEPT !.self._state = _STATE_IDLE], a.self._err)

run_task(self, cmd_code, stat, reg, p1, p2, pyb_bound) ==
    LET t == Begin(self)
    IN  IF self._state = _STATE_INIT THEN run_init(t, stat)
        ELSE IF self._state = _STATE_IDLE
        THEN run_idle(t, cmd_code, stat, reg, p1, p2, pyb_bound)
        ELSE IF self._state = _STATE_ERR THEN run_err(t, stat)
        ELSE IF self._state = _STATE_BUSY THEN run_busy(t, stat)
        ELSE run_unknown(t)

(***************************************************************************)
(* The environment: what the chip answers and what the caller requests.    *)
(***************************************************************************)
RECURSIVE ToggleFrom(_, _, _)
ToggleFrom(w, S, i) ==
    IF i > 15 THEN 0
    ELSE (IF i \in S THEN 1 - Bit(w, i) ELSE Bit(w, i)) * Pow2(i)
         + ToggleFrom(w, S, i + 1)

\* the status word with every flag at its nominal value (bits 9..14 set,
\* bits 7 and 8 clear, forward, not busy, Hi-Z), with the bits of S inverted
Toggled(S) == ToggleFrom(32256 + 16 + 2 + 1, S, 0)

\* nominal words and words with one error flag raised, with every
\* combination of the other bits inverted
Words(errs, others) ==
    {Toggled(E \cup I) : E \in {{}} \cup {{b} : b \in errs}, I \in SUBSET others}

StatusWords ==
    {0, 65535, Toggled({7, 8}), Toggled(9..14), Toggled({0}), Toggled({6}),
     Toggled({15}), Toggled({1, 15})} \cup Words(7..14, {1})

\* one word of each kind: nominal, busy, a fault flag, a command error
CoreStatusWords == {Toggled({}), Toggled({1}), Toggled({12}), Toggled({1, 7})}

\* the words answered to set_param's post-write GetStatus
ParamStatusWords == {Toggled({}), Toggled({1}), Toggled({8}), Toggled({1, 14})}

\* the values answered to GetParam
RegAnswers(register) ==
    IF register = "STEP_MODE" THEN {5, 7} ELSE {0, 4194303}

CmdCodes ==
    { <<"i", "n", "i", "t">>, <<"w", "a", "i", "t">>,
      <<"s", "l", "e", "w", "9", "0">>, <<"s", "l", "e", "w", "-", "4", ".", "5">>,
      <<"s", "l", "e", "w", "u", "p">>,
      <<"t", "u", "r", "n", " ", "5">>, <<"t", "u", "r", "n">>,
      <<"t", "r", "a", "c", "k">>,
      <<"m", "a", "r", "k">>, <<"m", "a", "r", "k", " ", "s", "e", "t">>,
      <<"h", "o", "m", "e">>, <<"h", "o", "m", "e", " ", "s", "e", "t">>,
      <<"s", "t", "o", "p">>, <<"o", "f", "f">>, <<"o", "f", "f", "s", "e", "t">> }

CoreCmdCodes == { <<"w", "a", "i", "t">>, <<"s", "t", "o", "p">> }

\* the ticks explored: every request with a word of each kind, and every
\* status word with the core requests
TickInputs == (CmdCodes \X CoreStatusWords) \cup (CoreCmdCodes \X StatusWords)

\* the set_param calls of a caller: main's two, and an unknown register
ParamCalls == { <<"STEP_MODE", 5>>, <<"MAX_SPEED", 32>>, <<"BOGUS", 1>> }

(***************************************************************************)
(* Which inputs a handler read, read off the driver calls it made.         *)
(***************************************************************************)
Calls(log, name) == {i \in 1..Len(log) : log[i][1] = name}

Count(log, name) == Cardinality(Calls(log, name))

\* the register of the handler's GetParam, if it made one
RegRead(log) ==
    IF Calls(log, "GetParam") = {} THEN "none"
    ELSE log[CHOOSE i \in Calls(log, "GetParam") : TRUE][2]

RegInputs(log) == IF RegRead(log) = "none" THEN {None} ELSE RegAnswers(RegRead(log))

P1Inputs(log) == IF Calls(log, "SetParam") = {} THEN {None} ELSE ParamStatusWords

P2Inputs(p1) ==
    IF p1 # None /\ err_mask_fails(p1) THEN ParamStatusWords ELSE {None}

MotionCalls == {"Run", "Move", "GoTo", "GoTo_DIR", "GoUntil", "ReleaseSW", "GoHome", "GoMark"}

StopCalls == {"SoftStop", "HardStop", "SoftHiZ", "HardHiZ", "ResetDevice"}

RECURSIVE Outstanding(_, _)
\* whether a motion command is outstanding (no stop sent after it) once the
\* driver calls of log have been made, given whether one was before
Outstanding(before, log) ==
    IF log = <<>> THEN before
    ELSE Outstanding(IF Head(log)[1] \in MotionCalls THEN TRUE
                     ELSE IF Head(log)[1] \in StopCalls THEN FALSE
                     ELSE before, Tail(log))

(***************************************************************************)
(* main(): the two motor tasks, the request variables, the USB text        *)
(* buffer, and where the program is.  pc is the statement main() is at:    *)
(* "setup" (the four set_param calls, step counts them), "alt" and "azi"   *)
(* (the two run_task calls of the loop), "usb" (the rest of the loop       *)
(* body), "shut_alt" and "shut_azi" (the KeyboardInterrupt handler),       *)
(* "exited".  host is what the host has typed and the board has not read.  *)
(* parsed is the text buffer as it was when the last pass of the loop body *)
(* read a carriage return, first whether no pass has finished, safed the   *)
(* axes sent a Hi-Z command since the loop stopped, last the last call     *)
(* made on a motor task.                                                   *)
(***************************************************************************)
Axes == {"altitude", "azimuth"}

init == <<"i", "n", "i", "t">>

wait == <<"w", "a", "i", "t">>

CR == "\r"

BS == "\\b"

\* MotorTask.__init__
MotorTask == [_state |-> _STATE_INIT, _err |-> 0, state |-> None]

NoTaskCall ==
    [axis |-> "none", op |-> "none", cmd_code |-> <<>>, stat |-> None,
     reg |-> None, p1 |-> None, p2 |-> None, log |-> <<>>, exc |-> "none",
     ret |-> None]

main_start ==
    [pc |-> "setup", step |-> 1,
     axes |-> [a \in Axes |-> MotorTask],
     cmd |-> [alt |-> init, azi |-> init, foc |-> init],
     usb_buf |-> <<">">>, host |-> <<>>, parsed |-> <<>>, first |-> TRUE,
     safed |-> {}, why |-> "none", last |-> NoTaskCall]

(***************************************************************************)
(* SPI bus 2 and the chip-select pins of the two drivers.  cs is the level *)
(* of each pin (floating before the pin is made an output), written        *)
(* whether the program has set it, made how far the device's owner has got *)
(* ("none" before SPIDevice.__init__, "new" after it, "reset" after the    *)
(* ResetDevice and "ready" after the GetStatus of MotorTask.__init__).     *)
(* dev is the device whose send_recieve is running, send_len and           *)
(* recieve_len its arguments, send and recv the bytes it still has to send *)
(* and to read, low whether it is between the cs.value(0) and the          *)
(* cs.value(1) of a byte.                                                  *)
(***************************************************************************)
Pins == {"B0", "B1"}

\* the level of a pin that is not an output
floating == -1

bus_start ==
    [cs |-> [p \in Pins |-> floating], written |-> [p \in Pins |-> FALSE],
     made |-> [p \in Pins |-> "none"],
     dev |-> "none", send_len |-> 0, recieve_len |-> 0, send |-> 0, recv |-> 0,
     low |-> FALSE]

(***************************************************************************)
(* The Raspberry Pi program (docs/raspi_main.py; raspberry_pi/main.py has  *)
(* the same code).  self is the Main_Task: _dev and _obs tell whether the  *)
(* attribute is bound to an object, angles are whole degrees, an IMU       *)
(* reading is <<heading, roll, pitch>> in the order read_euler gives them. *)
(* written and asked are what the last call wrote to the serial port and   *)
(* asked the user.  align is the history of the polar alignment under way  *)
(* or last run: the serial writes made in the alignment states, each with  *)
(* the state that made it, a "settled" entry where a wait in               *)
(* STATE_IMU_WAIT ended, and the prompts put to the user.                  *)
(***************************************************************************)
STATE_INIT == 1
STATE_CMD == 2
STATE_CAL_IMU == 3
STATE_CAL_AZI == 4
STATE_CAL_ALT == 5
STATE_ALIGN == 6
STATE_IMU_WAIT == 7
STATE_ERROR == 8
NO_ERROR == 0
ERROR_BAD_STATE == 1

\* Main_Task.__init__
Main_Task ==
    [_prev_state |-> None, _state |-> STATE_INIT, _error |-> NO_ERROR,
     _imu_entry |-> TRUE, _pre_euler_ang |-> <<0, 0, 0>>,
     _euler_ang |-> <<0, 0, 0>>, _dev |-> FALSE, _obs |-> FALSE, _alt |-> 0,
     _alt_calibrated |-> 0, _azi |-> 0, _azi_calibrated |-> 0]

\* last is the last thing done to the task: the call, the task as it was
\* before it, and the command line the call read
pi_start ==
    [self |-> Main_Task, pc |-> "loop", written |-> <<>>, asked |-> <<>>,
     exc |-> "none", align |-> <<>>,
     last |-> [op |-> "__init__", pre |-> Main_Task, cmd |-> <<>>]]

(***************************************************************************)
(* The state machine: a MotorTask and the calls a caller makes on it.      *)
(***************************************************************************)
Record(op, cmd_code, stat, reg, p1, p2, t) ==
    [op |-> op, pre |-> task, was_moving |-> moving, cmd_code |-> cmd_code,
     stat |-> stat, reg |-> reg, p1 |-> p1, p2 |-> p2,
     log |-> t.log, out |-> t.out, exc |-> t.exc, ret |-> t.ret]

NoCall == [fn |-> "none", args |-> <<>>, ret |-> None, sent |-> <<>>, recv |-> <<>>]

\* MotorTask.__init__: ResetDevice, one GetStatus thrown away, state Init
Init ==
    /\ task = [_state |-> _STATE_INIT, _err |-> 0, state |-> None]
    /\ pyb \in BOOLEAN
    /\ moving = FALSE
    /\ tick = [op |-> "__init__", pre |-> task, was_moving |-> FALSE,
               cmd_code |-> <<>>, stat |-> None, reg |-> None, p1 |-> None,
               p2 |-> None, log |-> << <<"ResetDevice">>, <<"GetStatus">> >>,
               out |-> <<>>, exc |-> "none", ret |-> None]
    /\ call = NoCall
    /\ fw = main_start
    /\ bus = bus_start
    /\ pi = pi_start

Apply(op, cmd_code, stat, reg, p1, p2, t) ==
    /\ task' = t.self
    /\ moving' = Outstanding(moving, t.log)
    /\ tick' = Record(op, cmd_code, stat, reg, p1, p2, t)
    /\ UNCHANGED <<pyb, call, fw, bus, pi>>

\* probe is the handler run with no answers at hand: its driver calls tell
\* which answers the handler asks the chip for
TickWith(cmd_code, stat, probe) ==
    IF Calls(probe.log, "GetParam") = {} /\ Calls(probe.log, "SetParam") = {}
    THEN Apply("run_task", cmd_code, stat, None, None, None, probe)
    ELSE \E reg \in RegInputs(probe.log), p1 \in P1Inputs(probe.log) :
             \E p2 \in P2Inputs(p1) :
                 Apply("run_task", cmd_code, stat, reg, p1, p2,
                       run_task(task, cmd_code, stat, reg, p1, p2, pyb))

Tick ==
    \E in \in TickInputs :
        TickWith(in[1], in[2], run_task(task, in[1], in[2], None, None, None, pyb))

SetParamWith(param_str, value, probe) ==
    \E p1 \in P1Inputs(probe.log) :
        \E p2 \in P2Inputs(p1) :
            Apply("set_param", <<>>, None, None, p1, p2,
                  set_param(Begin(task), param_str, value, p1, p2))

SetParamCall ==
    \E pc \in ParamCalls :
        SetParamWith(pc[1], pc[2], set_param(Begin(task), pc[1], pc[2], None, None))

ShutOff == Apply("shut_off", <<>>, None, None, None, None, shut_off(Begin(task)))

\* the positions the chip answers to get_angle's read of ABS_POS
AnglePositions == {0, 1600, 4194303}

\* the record keeps both answers, position first
GetAngle ==
    \E step_count \in AnglePositions, step_reg \in RegAnswers("STEP_MODE") :
        Apply("get_angle", <<>>, None, <<step_count, step_reg>>, None, None,
              get_angle(Begin(task), step_count, step_reg))

Next == Tick \/ SetParamCall \/ ShutOff \/ GetAngle

Spec == Init /\ [][Next]_vars

(***************************************************************************)
(* The same calls on a MotorTask whose _state a caller has overwritten     *)
(* with a value that is none of the four lifecycle states.                 *)
(***************************************************************************)
ForeignStates == {4, 255}

InitForeign ==
    /\ task \in {[_state |-> s, _err |-> 0, state |-> None] : s \in ForeignStates}
    /\ pyb \in BOOLEAN
    /\ moving = FALSE
    /\ tick = [op |-> "assign", pre |-> task, was_moving |-> FALSE,
               cmd_code |-> <<>>, stat |-> None, reg |-> None, p1 |-> None,
               p2 |-> None, log |-> <<>>, out |-> <<>>, exc |-> "none",
               ret |-> None]
    /\ call = NoCall
    /\ fw = main_start
    /\ bus = bus_start
    /\ pi = pi_start

ForeignSpec == InitForeign /\ [][Next]_vars

(***************************************************************************)
(* The command layer (docs/L6470_driver.py) over the transport             *)
(* (docs/stmspi.py).  A command is the value it returns and the bytes it   *)
(* has the transport send, in order.                                       *)
(***************************************************************************)
\* SPIDevice.send_recieve, the bytes sent:
\* [(send>>8*(send_len-byte-1))&0xff for byte in range(0,send_len)]
\* a wrong split of `send`, least-significant byte first
data_bytes_lsb_first(send, send_len) ==
    [byte \in 1..send_len |-> Shr(send, 8 * (byte - 1)) % 256]

\* [(send>>8*(send_len-byte-1))&0xff for byte in range(0,send_len)]
data_bytes(send, send_len) ==
    [byte \in 1..send_len |-> Shr(send, 8 * (send_len - byte)) % 256]

\* what a command returned, the bytes it put on the wire and the bytes it read
Exchange(ret, sent, recv) == [ret |-> ret, sent |-> sent, recv |-> recv]

Result(ret, sent) == Exchange(ret, sent, <<>>)

\* a wrong Run that checks the direction but not the sign of the speed
Run_unchecked_speed(speed, direction) ==
    IF direction # 1 /\ direction # 0 THEN Result(-1, <<>>)
    ELSE Result(0, data_bytes(80 + direction, 1) \o data_bytes(speed, 3))

Run(speed, direction) ==
    IF direction # 1 /\ direction # 0 THEN Result(-1, <<>>)
    ELSE IF speed < 0 THEN Result(-1, <<>>)
    ELSE Result(0, data_bytes(80 + direction, 1) \o data_bytes(speed, 3))

StepClock(direction) ==
    IF direction # 1 /\ direction # 0 THEN Result(-1, <<>>)
    ELSE Result(None, data_bytes(88 + direction, 1))

Move(steps, direction) ==
    IF direction # 1 /\ direction # 0 THEN Result(-1, <<>>)
    ELSE Result(None, data_bytes(64 + direction, 1) \o data_bytes(steps, 3))

GoTo_DIR(position, direction) ==
    IF direction # 1 /\ direction # 0 THEN Result(-1, <<>>)
    ELSE Result(None, data_bytes(104 + direction, 1) \o data_bytes(position, 3))

\* a wrong GoUntil that puts action in bit 1
GoUntil_action_bit1(speed, action, direction) ==
    IF action # 1 /\ action # 0 THEN Result(-1, <<>>)
    ELSE IF direction # 1 /\ direction # 0 THEN Result(-1, <<>>)
    ELSE Result(None, data_bytes(66 + action * 2 + direction, 1))

\* the speed argument is not transmitted
GoUntil(speed, action, direction) ==
    IF action # 1 /\ action # 0 THEN Result(-1, <<>>)
    ELSE IF direction # 1 /\ direction # 0 THEN Result(-1, <<>>)
    ELSE Result(None, data_bytes(66 + action * 8 + direction, 1))

ReleaseSW(action, direction) ==
    IF action # 1 /\ action # 0 THEN Result(-1, <<>>)
    ELSE IF direction # 1 /\ direction # 0 THEN Result(-1, <<>>)
    ELSE Result(None, data_bytes(112 + action * 8 + direction, 1))

(***************************************************************************)
(* SPIDevice.send_recieve: the bytes of `send`, then recieve_len bytes     *)
(* read and put together.  recv_bytes are the bytes the chip answers, so   *)
(* recieve_len is their number.                                            *)
(***************************************************************************)
RECURSIVE return_data(_)
\* return_data = return_data << 8; return_data += recv_bytes[byte]
return_data(recv_bytes) ==
    IF recv_bytes = <<>> THEN 0
    ELSE return_data(SubSeq(recv_bytes, 1, Len(recv_bytes) - 1)) * 256
             + recv_bytes[Len(recv_bytes)]

send_recieve(send, send_len, recv_bytes) ==
    Exchange(return_data(recv_bytes), data_bytes(send, send_len), recv_bytes)

\* math_ceil(regdata[1]/8)
math_ceil_8(bits) == (bits + 7) \div 8

\* a wrong SetParam that rounds the byte count down
SetParam_floor_bytes(register, value) ==
    LET regdata  == REGISTER_DICT[register]
        send_len == regdata[2] \div 8
    IN  Result(None, send_recieve(regdata[1], 1, <<>>).sent
                         \o send_recieve(value, send_len, <<>>).sent)

SetParam(register, value) ==
    LET regdata  == REGISTER_DICT[register]
        send_len == math_ceil_8(regdata[2])
    IN  Result(None, send_recieve(regdata[1], 1, <<>>).sent
                         \o send_recieve(value, send_len, <<>>).sent)

\* the command is handed over with send_len, the register's byte count
GetParam(register, recv_bytes) ==
    LET regdata  == REGISTER_DICT[register]
        cmd      == 32 + regdata[1]
        send_len == math_ceil_8(regdata[2])
    IN  send_recieve(cmd, send_len, recv_bytes)

(***************************************************************************)
(* The commands that take no argument send one opcode byte and no payload; *)
(* GoTo sends its opcode and the position in three bytes; GetStatus sends  *)
(* its opcode and reads the two bytes of the status word.                  *)
(***************************************************************************)
Nop == Result(None, send_recieve(0, 1, <<>>).sent)

GoTo(position) ==
    Result(None, send_recieve(96, 1, <<>>).sent
                     \o send_recieve(position, 3, <<>>).sent)

GoHome == Result(None, send_recieve(112, 1, <<>>).sent)

GoMark == Result(None, send_recieve(120, 1, <<>>).sent)

ResetPos == Result(None, send_recieve(216, 1, <<>>).sent)

ResetDevice == Result(None, send_recieve(192, 1, <<>>).sent)

SoftStop == Result(None, send_recieve(176, 1, <<>>).sent)

HardStop == Result(None, send_recieve(184, 1, <<>>).sent)

SoftHiZ == Result(None, send_recieve(160, 1, <<>>).sent)

HardHiZ == Result(None, send_recieve(168, 1, <<>>).sent)

GetStatus(recv_bytes) == send_recieve(208, 1, recv_bytes)

(***************************************************************************)
(* The command layer called on its own, with arguments in and out of       *)
(* their domains.                                                          *)
(***************************************************************************)
MaxArg == 2

\* values given as direction and as action
Flags == -1..MaxArg

Speeds == {-1000, -1, 0, 1000, 4194303}

Positions == {0, 1, 70000, 4194303}

Called(fn, args, r) ==
    /\ call' = [fn |-> fn, args |-> args, ret |-> r.ret, sent |-> r.sent,
                recv |-> r.recv]
    /\ UNCHANGED <<task, pyb, moving, tick, fw, bus, pi>>

CallRun ==
    \E speed \in Speeds, direction \in Flags :
        Called("Run", <<speed, direction>>, Run(speed, direction))

CallStepClock ==
    \E direction \in Flags :
        Called("StepClock", <<direction>>, StepClock(direction))

CallMove ==
    \E steps \in Positions, direction \in Flags :
        Called("Move", <<steps, direction>>, Move(steps, direction))

CallGoTo_DIR ==
    \E position \in Positions, direction \in Flags :
        Called("GoTo_DIR", <<position, direction>>, GoTo_DIR(position, direction))

CallGoUntil ==
    \E speed \in Speeds, action \in Flags, direction \in Flags :
        Called("GoUntil", <<speed, action, direction>>,
               GoUntil(speed, action, direction))

CallReleaseSW ==
    \E action \in Flags, direction \in Flags :
        Called("ReleaseSW", <<action, direction>>, ReleaseSW(action, direction))

\* the byte counts the command layer asks of the transport: 1 for an opcode,
\* ceil(bits / 8) for a register of 0 to 22 bits, 3 for a speed or a position
Lengths == 0..3

Values == {0, 1, 5, 255, 256, 1000, 65535, 70000, 4194303, 16777215, 16777216, 16777473}

Bytes == {0, 1, 255}

\* the answers of a chip to a read of n bytes
ByteSeqs(n) == [1..n -> Bytes]

CallSetParam ==
    \E register \in DOMAIN REGISTER_DICT, value \in Values :
        Called("SetParam", <<register, value>>, SetParam(register, value))

CallGetParam ==
    \E register \in DOMAIN REGISTER_DICT :
        \E recv_bytes \in ByteSeqs(math_ceil_8(REGISTER_DICT[register][2])) :
            Called("GetParam", <<register>>, GetParam(register, recv_bytes))

\* the transport on its own; with the wire looped back it reads what it sent
Callsend_recieve ==
    \E send \in Values, send_len \in Lengths :
        \E recv_bytes \in {data_bytes(send, send_len)} \cup ByteSeqs(1) :
            Called("send_recieve", <<send, send_len, Len(recv_bytes)>>,
                   send_recieve(send, send_len, recv_bytes))

\* Run as src/telescope_driver/L6470_driver.py has it: opcode and speed are
\* added into one value, cmd = ((0b01010000 + direction)<<8) + speed, of
\* which send_recieve(cmd,2,0) sends the low two bytes
telescope_driver_Run(speed, direction) ==
    IF direction # 1 /\ direction # 0 THEN Result(-1, <<>>)
    ELSE IF speed < 0 THEN Result(-1, <<>>)
    ELSE LET cmd == (80 + direction) * 256 + speed
         IN  Result(0, send_recieve(cmd, 2, <<>>).sent)

Calltelescope_driver_Run ==
    \E speed \in Speeds, direction \in Flags :
        Called("telescope_driver.Run", <<speed, direction>>,
               telescope_driver_Run(speed, direction))

\* the commands without an argument, each with what it puts on the wire
PlainCommands ==
    {<<"Nop", Nop>>, <<"GoHome", GoHome>>, <<"GoMark", GoMark>>,
     <<"ResetPos", ResetPos>>, <<"ResetDevice", ResetDevice>>,
     <<"SoftStop", SoftStop>>, <<"HardStop", HardStop>>,
     <<"SoftHiZ", SoftHiZ>>, <<"HardHiZ", HardHiZ>>}

CallPlain ==
    \E c \in PlainCommands : Called(c[1], <<>>, c[2])

CallGoTo ==
    \E position \in Positions : Called("GoTo", <<position>>, GoTo(position))

\* with bytes the chip answers to GetStatus
CallGetStatus ==
    \E recv_bytes \in [1..2 -> {0, 3, 126, 255}] :
        Called("GetStatus", <<>>, GetStatus(recv_bytes))

DriverNext ==
    \/ CallPlain
    \/ CallGoTo
    \/ CallGetStatus
    \/ CallSetParam
    \/ CallGetParam
    \/ Callsend_recieve
    \/ CallRun
    \/ CallStepClock
    \/ CallMove
    \/ CallGoTo_DIR
    \/ CallGoUntil
    \/ CallReleaseSW
    \/ Calltelescope_driver_Run

DriverSpec == Init /\ [][DriverNext]_vars

(***************************************************************************)
(* The firmware program, main() of main.py.                                *)
(***************************************************************************)
\* the set_param calls of lines 231-234, in order
Setup ==
    << <<"altitude", "STEP_MODE", 5>>, <<"altitude", "MAX_SPEED", 32>>,
       <<"azimuth", "STEP_MODE", 5>>, <<"azimuth", "MAX_SPEED", 32>> >>

\* the lines a host types, each ended by a carriage return
UsbLines ==
    { <<"a", "l", "t", ":", "o", "f", "f", CR>>,
      <<"a", "z", "i", ":", "s", "t", "o", "p", CR>>,
      <<"a", "z", "i", ":", "t", "r", "a", "c", "k", CR>>,
      <<"f", "o", "c", ":", "o", "f", "f", CR>>,
      <<"o", "f", "f", CR>>,
      <<BS, "a", "l", "t", ":", "o", "f", "f", CR>>,
      <<BS, BS, CR>> }

\* s[n:]
slice_from(s, n) == SubSeq(s, n + 1, Len(s))

\* a wrong update in which the two names are bound to one MotorTask
axis_update_shared(axes, a, self) == [b \in DOMAIN axes |-> self]

\* a method of the MotorTask a leaves that object as self; the two tasks
\* are two objects
axis_update(axes, a, self) == [axes EXCEPT ![a] = self]

\* a wrong parse that hands an addressed request to both axes
dispatch_to_both(cmds, cmd) ==
    IF startswith(cmd, <<"a", "l", "t", ":">>) \/ startswith(cmd, <<"a", "z", "i", ":">>)
    THEN [cmds EXCEPT !.alt = slice_from(cmd, 4), !.azi = slice_from(cmd, 4)]
    ELSE IF startswith(cmd, <<"f", "o", "c", ":">>)
    THEN [cmds EXCEPT !.foc = slice_from(cmd, 4)]
    ELSE cmds

\* the startswith chain of lines 271-278
dispatch(cmds, cmd) ==
    IF startswith(cmd, <<"a", "l", "t", ":">>)
    THEN [cmds EXCEPT !.alt = slice_from(cmd, 4)]
    ELSE IF startswith(cmd, <<"a", "z", "i", ":">>)
    THEN [cmds EXCEPT !.azi = slice_from(cmd, 4)]
    ELSE IF startswith(cmd, <<"f", "o", "c", ":">>)
    THEN [cmds EXCEPT !.foc = slice_from(cmd, 4)]
    ELSE cmds

TaskCall(a, op, cmd_code, stat, reg, p1, p2, t) ==
    [axis |-> a, op |-> op, cmd_code |-> cmd_code, stat |-> stat, reg |-> reg,
     p1 |-> p1, p2 |-> p2, log |-> t.log, exc |-> t.exc, ret |-> t.ret]

\* the program ends; whether the interpreter then runs L6470.__del__
\* (HardHiZ) of a driver object is not fixed by the program: fin are the
\* axes whose driver object is finalized
Halt(f, why, fin) ==
    [f EXCEPT !.pc = "exited", !.why = why, !.safed = @ \cup fin]

MainFrame == UNCHANGED <<task, pyb, moving, tick, call, bus, pi>>

\* one of the four set_param calls before the loop; an exception raised in
\* it is caught by nothing
SetupParam ==
    /\ fw.pc = "setup"
    /\ LET s == Setup[fw.step]
           probe == set_param(Begin(fw.axes[s[1]]), s[2], s[3], None, None)
       IN  \E p1 \in P1Inputs(probe.log), fin \in SUBSET Axes :
               \E p2 \in P2Inputs(p1) :
                   LET t == set_param(Begin(fw.axes[s[1]]), s[2], s[3], p1, p2)
                       f == [fw EXCEPT !.axes = axis_update(@, s[1], t.self),
                                       !.last = TaskCall(s[1], "set_param",
                                                         <<s[2], s[3]>>, None,
                                                         None, p1, p2, t)]
                   IN  fw' = IF t.exc # "none" THEN Halt(f, "set_param", fin)
                             ELSE IF fw.step = Len(Setup)
                             THEN [f EXCEPT !.pc = "alt", !.step = 0]
                             ELSE [f EXCEPT !.step = @ + 1]
    /\ MainFrame

\* task.run_task(cmd_code) in the loop; the try statement catches
\* KeyboardInterrupt only, so any exception raised in the call ends main()
LoopTick(a, cmd_code, next) ==
    \E stat \in CoreStatusWords, fin \in SUBSET Axes :
        LET probe == run_task(fw.axes[a], cmd_code, stat, None, None, None, pyb)
        IN  \E reg \in RegInputs(probe.log), p1 \in P1Inputs(probe.log) :
                \E p2 \in P2Inputs(p1) :
                    LET t == run_task(fw.axes[a], cmd_code, stat, reg, p1, p2, pyb)
                        f == [fw EXCEPT !.axes = axis_update(@, a, t.self),
                                        !.last = TaskCall(a, "run_task", cmd_code,
                                                          stat, reg, p1, p2, t)]
                    IN  fw' = IF t.exc # "none" THEN Halt(f, "run_task", fin)
                              ELSE [f EXCEPT !.pc = next]

\* status_alt = task_altitude.run_task(cmd_alt)
TickAlt ==
    /\ fw.pc = "alt"
    /\ LoopTick("altitude", fw.cmd.alt, "azi")
    /\ MainFrame

\* status_azi = task_azimuth.run_task(cmd_azi)
TickAzi ==
    /\ fw.pc = "azi"
    /\ LoopTick("azimuth", fw.cmd.azi, "usb")
    /\ MainFrame

\* the rest of the loop body: the requests are reset to 'wait', then one
\* character is read if there is one.  pops tells whether this build's
\* bytearray has a pop method
Usb ==
    /\ fw.pc = "usb"
    /\ \E pops \in BOOLEAN, fin \in SUBSET Axes :
         LET f == [fw EXCEPT !.cmd = [alt |-> wait, azi |-> wait, foc |-> wait],
                             !.first = FALSE, !.parsed = <<>>, !.pc = "alt"]
             char == Head(fw.host)
             g == [f EXCEPT !.host = Tail(@)]
         IN  fw' = IF fw.host = <<>> THEN f
                   ELSE IF char = BS
                   THEN IF ~pops \/ fw.usb_buf = <<>> THEN Halt(g, "usb", fin)
                        ELSE [g EXCEPT !.usb_buf = SubSeq(@, 1, Len(@) - 1)]
                   ELSE IF char = CR
                   THEN [g EXCEPT !.cmd = dispatch(@, slice_from(fw.usb_buf, 1)),
                                  !.parsed = fw.usb_buf,
                                  !.usb_buf = <<">">>]
                   ELSE [g EXCEPT !.usb_buf = Append(@, char)]
    /\ MainFrame

\* the host types a line
HostSends ==
    /\ fw.pc \in {"alt", "azi", "usb"}
    /\ fw.host = <<>>
    /\ \E line \in UsbLines : fw' = [fw EXCEPT !.host = line]
    /\ MainFrame

\* Ctrl-C while the loop runs
Interrupt ==
    /\ fw.pc \in {"alt", "azi", "usb"}
    /\ fw' = [fw EXCEPT !.pc = "shut_alt", !.why = "KeyboardInterrupt"]
    /\ MainFrame

Sent(log) == {log[i][1] : i \in 1..Len(log)}

\* task.shut_off() in the handler
ShutDown(a) ==
    LET t == shut_off(Begin(fw.axes[a]))
    IN  [fw EXCEPT !.axes = axis_update(@, a, t.self),
                   !.safed = @ \cup (IF Sent(t.log) \cap {"SoftHiZ", "HardHiZ"} # {}
                                     THEN {a} ELSE {}),
                   !.last = TaskCall(a, "shut_off", <<>>, None, None, None, None, t)]

ShutAlt ==
    /\ fw.pc = "shut_alt"
    /\ fw' = [ShutDown("altitude") EXCEPT !.pc = "shut_azi"]
    /\ MainFrame

ShutAzi ==
    /\ fw.pc = "shut_azi"
    /\ \E fin \in SUBSET Axes :
           fw' = Halt(ShutDown("azimuth"), "KeyboardInterrupt", fin)
    /\ MainFrame

MainNext ==
    \/ SetupParam
    \/ TickAlt
    \/ TickAzi
    \/ Usb
    \/ HostSends
    \/ Interrupt
    \/ ShutAlt
    \/ ShutAzi

MainSpec == Init /\ [][MainNext]_vars

(***************************************************************************)
(* SPIDevice on the shared bus, byte by byte.                              *)
(***************************************************************************)
BusFrame == UNCHANGED <<task, pyb, moving, tick, call, fw, pi>>

\* a wrong pin write that drives the pin low whatever the level asked for
cs_value_low(b, level) ==
    [b EXCEPT !.cs[b.dev] = 0, !.written[b.dev] = TRUE]

\* self.cs.value(level)
cs_value(b, level) ==
    [b EXCEPT !.cs[b.dev] = level, !.written[b.dev] = TRUE]

\* the lengths of the transfers the driver asks for
SendLens == 1..4

RecieveLens == 0..3

\* SPIDevice.__init__ of main()'s two devices, B0 first and B1 once the
\* altitude MotorTask is built.  Pin(chip_select_pin, Pin.OUT_PP) makes the
\* pin an output and gives it no level: it drives what the port's output
\* register holds
NewDevice ==
    /\ bus.dev = "none"
    /\ \E p \in Pins, level \in {0, 1} :
           /\ bus.made[p] = "none"
           /\ p = "B1" => bus.made["B0"] = "ready"
           /\ bus' = [bus EXCEPT !.cs[p] = level, !.made[p] = "new"]
    /\ BusFrame

\* send_recieve is entered: MotorTask.__init__ sends ResetDevice (one byte)
\* and GetStatus (one byte, two read); later calls come when both tasks
\* are built
Enter ==
    /\ bus.dev = "none"
    /\ \E p \in Pins, send_len \in SendLens, recieve_len \in RecieveLens :
           /\ CASE bus.made[p] = "new" -> send_len = 1 /\ recieve_len = 0
                [] bus.made[p] = "reset" -> send_len = 1 /\ recieve_len = 2
                [] bus.made[p] = "ready" -> \A q \in Pins : bus.made[q] = "ready"
                [] OTHER -> FALSE
           /\ bus' = [bus EXCEPT !.dev = p, !.send_len = send_len,
                                 !.recieve_len = recieve_len,
                                 !.send = send_len, !.recv = recieve_len]
    /\ BusFrame

\* the first half of __send_byte and of __read_byte: cs.value(0), udelay
SelectChip ==
    /\ bus.dev # "none"
    /\ ~bus.low
    /\ bus.send + bus.recv > 0
    /\ bus' = [cs_value(bus, 0) EXCEPT !.low = TRUE]
    /\ BusFrame

\* the second half: the byte goes over the bus, udelay, cs.value(1)
ReleaseChip ==
    /\ bus.low
    /\ bus' = [cs_value(bus, 1) EXCEPT
                  !.low = FALSE,
                  !.send = IF bus.send > 0 THEN @ - 1 ELSE @,
                  !.recv = IF bus.send > 0 THEN @ ELSE @ - 1]
    /\ BusFrame

\* send_recieve returns
Leave ==
    /\ bus.dev # "none"
    /\ ~bus.low
    /\ bus.send + bus.recv = 0
    /\ bus' = [bus EXCEPT !.dev = "none",
                          !.made[bus.dev] = CASE @ = "new" -> "reset"
                                              [] @ = "reset" -> "ready"
                                              [] OTHER -> @]
    /\ BusFrame

BusNext == NewDevice \/ Enter \/ SelectChip \/ ReleaseChip \/ Leave

BusSpec == Init /\ [][BusNext]_vars

(***************************************************************************)
(* Main_Task.run_task of the Raspberry Pi program, one operator per state. *)
(* in holds what the call reads: the command line (split into words), the  *)
(* IMU's system calibration status, its Euler angles, the user's answer to *)
(* the prompt and the manual commands typed before 'done', the Moon's      *)
(* position, and whether the serial port opens.                            *)
(***************************************************************************)
PiFrame == UNCHANGED <<task, pyb, moving, tick, call, fw, bus>>

AlignStates == {STATE_CAL_ALT, STATE_CAL_AZI, STATE_ALIGN, STATE_IMU_WAIT}

\* an exception leaves the call at the raising statement
Fail(p, e) == IF p.exc # "none" THEN p ELSE [p EXCEPT !.exc = e]

\* the statements after a call that may have raised
Ok(p, q) == IF p.exc # "none" THEN p ELSE q

Noted(p, text) ==
    IF p.self._state \in AlignStates
    THEN [p EXCEPT !.align = Append(@, <<p.self._state, text>>)]
    ELSE p

\* self._dev.write(text + str(n) + '\r'); _dev is None if the port did not open
dev_write(p, text, n) ==
    IF p.exc # "none" THEN p
    ELSE IF ~p.self._dev THEN Fail(p, "AttributeError")
    ELSE Noted([p EXCEPT !.written = Append(@, <<text, n>>)], text)

\* raw_input(prompt)
raw_input(p, prompt) == Noted([p EXCEPT !.asked = Append(@, prompt)], prompt)

init_state(p, in) ==
    [p EXCEPT !.self._dev = in.connect, !.self._prev_state = STATE_INIT,
              !.self._state = STATE_CMD]

\* a wrong guard that lets 'goto' through whatever was calibrated
goto_allowed_always(self) == TRUE

\* (self._alt_calibrated and self._azi_calibrated) == 1
goto_allowed(self) == self._alt_calibrated = 1 /\ self._azi_calibrated = 1

cmd_state(p, in) ==
    LET split_cmd == in.cmd
        a == raw_input(p, "Enter a command: ")
    IN  IF split_cmd = <<>> THEN Fail(a, "IndexError")
        ELSE IF split_cmd[1] = "cal"
        THEN IF Len(split_cmd) < 2 THEN Fail(a, "IndexError")
             ELSE IF split_cmd[2] = "obs" THEN [a EXCEPT !.self._obs = TRUE]
             ELSE IF split_cmd[2] = "imu"
             THEN IF in.cal > 0 THEN a
                  ELSE [a EXCEPT !.self._prev_state = STATE_CMD,
                                 !.self._state = STATE_CAL_IMU]
             ELSE IF split_cmd[2] = "polar"
             THEN IF ~a.self._obs THEN a
                  ELSE IF in.cal > 0
                  THEN [a EXCEPT !.self._prev_state = STATE_CMD,
                                 !.self._state = STATE_ALIGN, !.align = <<>>]
                  ELSE a
             ELSE a
        ELSE IF split_cmd[1] = "goto"
        THEN IF goto_allowed(a.self)
             THEN LET b == IF split_cmd[2] = "moon"
                           THEN [a EXCEPT !.self._alt = in.moon[1],
                                          !.self._azi = in.moon[2]]
                           ELSE a
                      c == dev_write(b, "azi:slew", b.self._azi)
                  IN  dev_write(c, "alt:slew", c.self._alt)
             ELSE a
        ELSE IF split_cmd[1] = "test"
        THEN IF Len(split_cmd) < 2 THEN Fail(a, "IndexError")
             ELSE dev_write(a, split_cmd[2], None)
        ELSE a

cal_imu_state(p, in) ==
    IF in.cal > 0
    THEN [p EXCEPT !.self._prev_state = STATE_CAL_IMU, !.self._state = STATE_CMD]
    ELSE p

cal_alt_state(p, in) ==
    LET a == [p EXCEPT !.self._euler_ang = in.euler]
        b == dev_write(a, "alt:slew ", -in.euler[2])
    IN  IF b.self._prev_state = STATE_IMU_WAIT
        THEN LET c == dev_write(b, "alt:home set", None)
             IN  Ok(c, [c EXCEPT !.self._alt_calibrated = 1,
                                 !.self._prev_state = STATE_CAL_ALT,
                                 !.self._state = STATE_CAL_AZI])
        ELSE Ok(b, [b EXCEPT !.self._prev_state = STATE_CAL_ALT,
                             !.self._state = STATE_IMU_WAIT])

cal_azi_state(p, in) ==
    LET a == [p EXCEPT !.self._euler_ang = in.euler]
        b == dev_write(a, "azi:slew", -in.euler[1])
    IN  IF b.self._prev_state = STATE_IMU_WAIT
        THEN LET c == dev_write(b, "azi:home set", None)
             IN  Ok(c, [c EXCEPT !.self._azi_calibrated = 1,
                                 !.self._state = STATE_ALIGN])
        ELSE Ok(b, [b EXCEPT !.self._prev_state = STATE_CAL_AZI,
                             !.self._state = STATE_IMU_WAIT])

\* where ephem puts Polaris for the observer: <<altitude, azimuth>>
Polaris == <<35, 0>>

RECURSIVE manual_adjust(_, _, _)
\* the loop that sends each manual command until 'done' is typed
manual_adjust(p, cmds, euler) ==
    IF cmds = <<>> \/ p.exc # "none" THEN p
    ELSE LET a == dev_write(p, Head(cmds), None)
         IN  manual_adjust(Ok(a, [a EXCEPT !.self._euler_ang = euler]),
                           Tail(cmds), euler)

align_state(p, in) ==
    IF p.self._prev_state = STATE_CMD
    THEN [p EXCEPT !.self._prev_state = STATE_ALIGN, !.self._state = STATE_CAL_ALT]
    ELSE IF p.self._prev_state = STATE_CAL_AZI
    THEN LET a == [p EXCEPT !.self._euler_ang = in.euler,
                            !.self._azi = Polaris[2] - in.euler[1],
                            !.self._alt = Polaris[1] - in.euler[2]]
             b == dev_write(a, "azi:slew", a.self._azi)
             c == dev_write(b, "alt:slew", b.self._alt)
         IN  Ok(c, [c EXCEPT !.self._prev_state = STATE_ALIGN,
                             !.self._state = STATE_IMU_WAIT])
    ELSE IF p.self._prev_state = STATE_IMU_WAIT
    THEN LET a == raw_input(p, "Is this position correct? [y/n]")
             b == IF in.confirm = "n" THEN manual_adjust(a, in.manual, in.euler)
                  ELSE a
             c == dev_write(b, "azi:home set", None)
             d == dev_write(c, "alt:home set", None)
         IN  Ok(d, [d EXCEPT !.self._prev_state = STATE_ALIGN,
                             !.self._state = STATE_CMD])
    ELSE p

abs(x) == IF x < 0 THEN -x ELSE x

\* abs(sum of the three differences) < 0.1, on whole degrees
still(euler_ang, pre_euler_ang) ==
    10 * abs((euler_ang[1] - pre_euler_ang[1]) + (euler_ang[2] - pre_euler_ang[2])
             + (euler_ang[3] - pre_euler_ang[3])) < 1

\* a wrong wait that resumes the state it came from and leaves _prev_state
\* as it was
imu_wait_state_keeps_prev(p, in) ==
    IF p.self._imu_entry
    THEN [p EXCEPT !.self._euler_ang = in.euler, !.self._imu_entry = FALSE]
    ELSE LET a == [p EXCEPT !.self._pre_euler_ang = p.self._euler_ang,
                            !.self._euler_ang = in.euler]
         IN  IF still(a.self._euler_ang, a.self._pre_euler_ang)
             THEN [Noted(a, "settled") EXCEPT
                      !.self._imu_entry = TRUE,
                      !.self._state = a.self._prev_state]
             ELSE a

imu_wait_state(p, in) ==
    IF p.self._imu_entry
    THEN [p EXCEPT !.self._euler_ang = in.euler, !.self._imu_entry = FALSE]
    ELSE LET a == [p EXCEPT !.self._pre_euler_ang = p.self._euler_ang,
                            !.self._euler_ang = in.euler]
         IN  IF still(a.self._euler_ang, a.self._pre_euler_ang)
             THEN [Noted(a, "settled") EXCEPT
                      !.self._imu_entry = TRUE,
                      !.self._state = a.self._prev_state,
                      !.self._prev_state = STATE_IMU_WAIT]
             ELSE a

error_state(p) ==
    IF p.self._error = NO_ERROR THEN [p EXCEPT !.self._state = STATE_INIT]
    ELSE IF p.self._error = ERROR_BAD_STATE
    THEN [p EXCEPT !.self._error = NO_ERROR]
    ELSE p

Main_Task_run_task(q, in) ==
    LET p == [q EXCEPT !.written = <<>>, !.asked = <<>>]
    IN  CASE p.self._state = STATE_INIT -> init_state(p, in)
          [] p.self._state = STATE_CMD -> cmd_state(p, in)
          [] p.self._state = STATE_CAL_IMU -> cal_imu_state(p, in)
          [] p.self._state = STATE_CAL_ALT -> cal_alt_state(p, in)
          [] p.self._state = STATE_CAL_AZI -> cal_azi_state(p, in)
          [] p.self._state = STATE_ALIGN -> align_state(p, in)
          [] p.self._state = STATE_IMU_WAIT -> imu_wait_state(p, in)
          [] p.self._state = STATE_ERROR -> error_state(p)
          [] OTHER -> p

\* what the user types at 'Enter a command: ', split at white space
CommandLines ==
    { <<"cal", "obs">>, <<"cal", "imu">>, <<"cal", "polar">>, <<"cal", "x">>,
      <<"goto", "moon">>, <<"goto", "mars">>, <<"test", "alt:off">>,
      <<"help">>, <<>> }

\* get_calibration_status()[0]
CalibrationStatus == {0, 3}

\* read_euler()
Eulers == {<<0, 0, 0>>, <<10, 0, 5>>, <<10, 1, 4>>}

Confirms == {"y", "n"}

ManualCommands == {<<>>, <<"alt:turn 1">>}

\* <<altitude, azimuth>> of the Moon
MoonPositions == {<<20, 120>>}

PiInputs ==
    [cmd : CommandLines, cal : CalibrationStatus, euler : Eulers,
     confirm : Confirms, manual : ManualCommands, moon : MoonPositions,
     connect : BOOLEAN]

\* main.run_task() in the loop; the try statement catches KeyboardInterrupt
\* only
RunTask ==
    /\ pi.pc = "loop"
    /\ \E in \in PiInputs :
           LET p == [Main_Task_run_task(pi, in) EXCEPT
                        !.last = [op |-> "run_task", pre |-> pi.self,
                                  cmd |-> IF pi.self._state = STATE_CMD
                                          THEN in.cmd ELSE <<>>]]
           IN  pi' = IF p.exc # "none" THEN [p EXCEPT !.pc = "exited"] ELSE p
    /\ PiFrame

\* Ctrl-C: the handler writes 'azi:off' and 'alt:off'
KeyboardInterrupt ==
    /\ pi.pc = "loop"
    /\ LET p == [pi EXCEPT !.written = <<>>, !.asked = <<>>]
           a == dev_write(p, "azi:off", None)
           b == dev_write(a, "alt:off", None)
       IN  pi' = [b EXCEPT !.pc = "exited",
                           !.last = [op |-> "KeyboardInterrupt", pre |-> pi.self,
                                     cmd |-> <<>>]]
    /\ PiFrame

PiNext == RunTask \/ KeyboardInterrupt

PiSpec == Init /\ [][PiNext]_vars

(***************************************************************************)
(* The same program with a Main_Task whose _state something has            *)
(* overwritten with a value that is none of the eight states.              *)
(***************************************************************************)
PiForeignStates == {0, 9}

Overwrite ==
    /\ pi.pc = "loop"
    /\ pi.last.op # "assign"
    /\ \E st \in PiForeignStates :
           pi' = [pi EXCEPT !.self._state = st,
                            !.last = [op |-> "assign", pre |-> pi.self,
                                      cmd |-> <<>>]]
    /\ PiFrame

PiForeignNext == RunTask \/ KeyboardInterrupt \/ Overwrite

PiForeignSpec == Init /\ [][PiForeignNext]_vars

(***************************************************************************)
(* Vocabulary of the properties.                                           *)
(***************************************************************************)
\* the error-mask test as the specification words it: bits 7 and 8 clear,
\* bits 9..14 all set
MaskPasses(w) ==
    /\ Bit(w, 7) = 0
    /\ Bit(w, 8) = 0
    /\ \A i \in 9..14 : Bit(w, i) = 1

\* the names of the driver calls of a log, in order
Names(log) == [i \in 1..Len(log) |-> log[i][1]]

Printed(kind) == \E i \in 1..Len(tick.out) : tick.out[i].kind = kind

Ticked == tick.op = "run_task"

TickedIn(st) == Ticked /\ tick.pre._state = st

stop == <<"s", "t", "o", "p">>

off == <<"o", "f", "f">>

(***************************************************************************)
(* C1 (as claimed).  In every lifecycle state a tick given 'stop' sends    *)
(* SoftStop and a tick given 'off' sends SoftHiZ during that tick.         *)
(***************************************************************************)
C1_StopOffSentInEveryState ==
    /\ (Ticked /\ tick.cmd_code = stop) => Count(tick.log, "SoftStop") >= 1
    /\ (Ticked /\ tick.cmd_code = off) => Count(tick.log, "SoftHiZ") >= 1

(***************************************************************************)
(* What run_task does with 'stop' and 'off': it sends SoftStop             *)
(* (respectively SoftHiZ) exactly when the tick begins in Idle and the     *)
(* status word passes the error-mask test, and then sends GetStatus and    *)
(* that one command.  In Init, Busy and Error, and in Idle with a failing  *)
(* status word, the request is not executed: the tick sends GetStatus      *)
(* only, or GetStatus and the SoftHiZ of a successful Init.                *)
(***************************************************************************)
C1_StopOffOnlyFromIdle ==
    (Ticked /\ tick.cmd_code \in {stop, off}) =>
        IF tick.pre._state = _STATE_IDLE /\ MaskPasses(tick.stat)
        THEN Names(tick.log) =
                 <<"GetStatus", IF tick.cmd_code = stop THEN "SoftStop" ELSE "SoftHiZ">>
        ELSE \/ Names(tick.log) = <<"GetStatus">>
             \/ /\ tick.pre._state = _STATE_INIT
                /\ Names(tick.log) = <<"GetStatus", "SoftHiZ">>

\* a stop requested while Busy is lost
C1_Witness ==
    /\ TickedIn(_STATE_BUSY)
    /\ tick.cmd_code = stop
    /\ task._state = _STATE_BUSY
    /\ Names(tick.log) = <<"GetStatus">>

(***************************************************************************)
(* C2.  Whenever a fault is reported (an Init fault, the entry into Error  *)
(* from Idle, a set_param failure after its retry), no motion command      *)
(* sent earlier is outstanding: a SoftStop, HardStop, SoftHiZ or HardHiZ    *)
(* was sent after the last motion command and before the report.           *)
(***************************************************************************)
FaultReports ==
    {"Cannot connect", "Init error", "Error in driver", "Error setting parameter"}

\* whether a motion command is outstanding when the i-th line is printed
OutstandingAtReport(i) ==
    Outstanding(tick.was_moving, SubSeq(tick.log, 1, tick.out[i].at))

C2_FaultReportedWithMotorSafe ==
    \A i \in 1..Len(tick.out) :
        tick.out[i].kind \in FaultReports => ~ OutstandingAtReport(i)

(***************************************************************************)
(* C3.  In Init, a status word other than 0x0000 and 0xFFFF that passes    *)
(* the error-mask test makes the tick send exactly one SoftHiZ (after its  *)
(* GetStatus) and leave the axis in Idle.                                  *)
(***************************************************************************)
C3_InitSuccess ==
    (TickedIn(_STATE_INIT) /\ tick.stat \notin {0, 65535} /\ MaskPasses(tick.stat)) =>
        /\ Count(tick.log, "SoftHiZ") = 1
        /\ Names(tick.log) = <<"GetStatus", "SoftHiZ">>
        /\ task._state = _STATE_IDLE

C3_Witness ==
    /\ TickedIn(_STATE_INIT)
    /\ MaskPasses(tick.stat)
    /\ Bit(tick.stat, 1) = 0
    /\ task._state = _STATE_IDLE
    /\ Count(tick.log, "SoftHiZ") = 1

(***************************************************************************)
(* C4.  In Init, a status word that is 0x0000, is 0xFFFF or fails the      *)
(* error-mask test leaves the axis in Init, and the tick sends GetStatus   *)
(* and nothing else, whatever the request.                                 *)
(***************************************************************************)
C4_InitFailure ==
    (TickedIn(_STATE_INIT)
         /\ (tick.stat \in {0, 65535} \/ ~ MaskPasses(tick.stat))) =>
        /\ task._state = _STATE_INIT
        /\ tick.log = << <<"GetStatus">> >>

\* a single fault flag raised, with a request that would move the motor
C4_Witness ==
    /\ TickedIn(_STATE_INIT)
    /\ tick.stat = Toggled({12})
    /\ tick.cmd_code = <<"t", "r", "a", "c", "k">>
    /\ task._state = _STATE_INIT
    /\ tick.log = << <<"GetStatus">> >>

(***************************************************************************)
(* C5.  In Busy, bit 1 of the status word alone decides the tick: set, the *)
(* axis ends in Idle with the busy indication cleared (_err = 0); clear,   *)
(* the axis ends in Busy.                                                  *)
(***************************************************************************)
C5_BusyDecidedByBit1 ==
    TickedIn(_STATE_BUSY) =>
        IF Bit(tick.stat, 1) = 1
        THEN task._state = _STATE_IDLE /\ task._err = 0
        ELSE task._state = _STATE_BUSY

\* the motion ends although the word carries a fault flag
C5_Witness ==
    /\ TickedIn(_STATE_BUSY)
    /\ Bit(tick.stat, 1) = 1
    /\ ~ MaskPasses(tick.stat)
    /\ task._state = _STATE_IDLE
    /\ task._err = 0

(***************************************************************************)
(* C6.  One call of set_param sends SetParam at most twice and GetStatus   *)
(* at most four times.  If the status read after the first write passes    *)
(* the error-mask test the call sends exactly GetStatus, SetParam,         *)
(* GetStatus; if it fails the call sends that sequence exactly once more,  *)
(* with the same register and value, and reports the failure exactly when  *)
(* the second post-write status fails too.                                 *)
(***************************************************************************)
\* the driver calls of the set_param call of the last handler: all of them
\* for a direct call; in a tick, those after the tick's GetStatus and its
\* GetParam('ABS_POS') or SoftStop
SetParamLog ==
    IF tick.op = "set_param" THEN tick.log ELSE SubSeq(tick.log, 3, Len(tick.log))

\* set_param ran up to its first post-write status read
SetParamRan == tick.p1 # None

C6_SetParamRetriesOnce ==
    SetParamRan =>
        LET log == SetParamLog
            once == <<"GetStatus", "SetParam", "GetStatus">>
        IN  /\ Count(log, "SetParam") <= 2
            /\ Count(log, "GetStatus") <= 4
            /\ \A i, j \in Calls(log, "SetParam") : log[i] = log[j]
            /\ IF MaskPasses(tick.p1)
               THEN /\ Names(log) = once
                    /\ ~ Printed("Error setting parameter")
               ELSE /\ Names(log) = once \o once
                    /\ Printed("Error setting parameter") <=> ~ MaskPasses(tick.p2)

\* both post-write status words fail: two writes, a report, no third write
C6_Witness ==
    /\ tick.op = "set_param"
    /\ SetParamRan
    /\ ~ MaskPasses(tick.p1)
    /\ ~ MaskPasses(tick.p2)
    /\ Count(tick.log, "SetParam") = 2
    /\ Count(tick.log, "GetStatus") = 4
    /\ Printed("Error setting parameter")

(***************************************************************************)
(* C7.  Every change of the lifecycle state is one of Init->Idle,          *)
(* Idle->Busy, Busy->Idle, Idle->Error, Error->Idle, and the state is      *)
(* always one of the four: Init is never re-entered, Busy and Error are    *)
(* entered only from Idle.                                                 *)
(***************************************************************************)
LifecycleEdges ==
    { <<_STATE_INIT, _STATE_IDLE>>, <<_STATE_IDLE, _STATE_BUSY>>,
      <<_STATE_BUSY, _STATE_IDLE>>, <<_STATE_IDLE, _STATE_ERR>>,
      <<_STATE_ERR, _STATE_IDLE>> }

C7_LifecycleEdgesOnly ==
    [][ /\ task'._state \in {_STATE_INIT, _STATE_IDLE, _STATE_BUSY, _STATE_ERR}
        /\ \/ task'._state = task._state
           \/ <<task._state, task'._state>> \in LifecycleEdges ]_vars

\* shut_off takes a Busy axis to Idle
C7_Witness ==
    /\ tick.op = "shut_off"
    /\ tick.pre._state = _STATE_BUSY
    /\ task._state = _STATE_IDLE

(***************************************************************************)
(* C8.  In Idle, a status word that fails the error-mask test moves the    *)
(* axis to Error, makes last_error (_err) that status word, and the tick   *)
(* sends GetStatus and nothing else: the request is not executed.          *)
(***************************************************************************)
C8_IdleFaultRecorded ==
    (TickedIn(_STATE_IDLE) /\ ~ MaskPasses(tick.stat)) =>
        /\ task._state = _STATE_ERR
        /\ task._err = tick.stat
        /\ tick.log = << <<"GetStatus">> >>

(***************************************************************************)
(* C9.  In Error, a tick sends exactly one GetStatus and nothing else.     *)
(* While the status word fails the error-mask test the axis stays in Error *)
(* with last_error unchanged; on a tick whose status word passes,          *)
(* last_error is cleared and the axis is in Idle.                          *)
(***************************************************************************)
C9_ErrorPollsUntilMaskPasses ==
    TickedIn(_STATE_ERR) =>
        /\ tick.log = << <<"GetStatus">> >>
        /\ IF MaskPasses(tick.stat)
           THEN task._state = _STATE_IDLE /\ task._err = 0
           ELSE task._state = _STATE_ERR /\ task._err = tick.pre._err

\* the recovery: a tick in Error whose status word passes
C9_Witness ==
    /\ TickedIn(_STATE_ERR)
    /\ MaskPasses(tick.stat)
    /\ task._state = _STATE_IDLE
    /\ tick.log = << <<"GetStatus">> >>

\* the wait: a tick in Error whose status word still fails
C9_WitnessStays ==
    /\ TickedIn(_STATE_ERR)
    /\ ~ MaskPasses(tick.stat)
    /\ task._state = _STATE_ERR

(***************************************************************************)
(* C10.  Run, Move, GoTo_DIR, GoUntil, ReleaseSW and StepClock called with *)
(* a direction outside {0,1}, an action (GoUntil, ReleaseSW) outside {0,1} *)
(* or, for Run, a negative speed return the error value -1 and have the    *)
(* transport send no byte.                                                 *)
(***************************************************************************)
\* the direction is the last argument of each of the six
DirectionOf(c) == c.args[Len(c.args)]

HasAction(c) == c.fn \in {"GoUntil", "ReleaseSW"}

ActionOf(c) == c.args[Len(c.args) - 1]

\* the six commands that take a direction
DirectedCommands == {"Run", "Move", "GoTo_DIR", "GoUntil", "ReleaseSW", "StepClock"}

InvalidArguments(c) ==
    \/ DirectionOf(c) \notin {0, 1}
    \/ HasAction(c) /\ ActionOf(c) \notin {0, 1}
    \/ c.fn = "Run" /\ c.args[1] < 0

C10_InvalidArgumentsSendNothing ==
    (call.fn \in DirectedCommands /\ InvalidArguments(call)) =>
        /\ call.ret = -1
        /\ call.sent = <<>>

\* Run with a valid direction and a negative speed
C10_Witness ==
    /\ call.fn = "Run"
    /\ DirectionOf(call) = 1
    /\ call.args[1] < 0
    /\ call.ret = -1
    /\ call.sent = <<>>

(***************************************************************************)
(* C11.  For every register of the table and every non-negative value,     *)
(* SetParam puts on the wire one opcode byte, 0x00 | address, and then     *)
(* exactly ceil(bit_width / 8) payload bytes: the value truncated to that  *)
(* many bytes, most-significant byte first.                                *)
(***************************************************************************)
\* ceil(bits / 8), said without arithmetic on bits
ByteLength(bits) == CHOOSE n \in 0..4 : 8 * n >= bits /\ 8 * n < bits + 8

\* the number that up to three bytes spell, most-significant byte first
BigEndianValue(b) ==
    IF Len(b) = 0 THEN 0
    ELSE IF Len(b) = 1 THEN b[1]
    ELSE IF Len(b) = 2 THEN b[1] * 256 + b[2]
    ELSE b[1] * 65536 + b[2] * 256 + b[3]

AddressOf(register) == REGISTER_DICT[register][1]

WidthOf(register) == REGISTER_DICT[register][2]

C11_SetParamFrame ==
    call.fn = "SetParam" =>
        LET n       == ByteLength(WidthOf(call.args[1]))
            payload == SubSeq(call.sent, 2, Len(call.sent))
        IN  /\ Len(call.sent) = 1 + n
            /\ call.sent[1] = AddressOf(call.args[1])
            /\ \A i \in 1..n : payload[i] \in 0..255
            /\ BigEndianValue(payload) = call.args[2] % (256 ^ n)
            /\ call.recv = <<>>

\* a 16-bit register written with a value wider than two bytes
C11_Witness ==
    /\ call.fn = "SetParam"
    /\ call.args = <<"STATUS", 70000>>
    /\ call.sent = <<25, 17, 112>>

(***************************************************************************)
(* C12.  For every register of the table, GetParam sends exactly one byte, *)
(* the opcode 0x20 | address, then reads exactly ceil(bit_width / 8) bytes *)
(* and returns them put together most-significant byte first.              *)
(***************************************************************************)
C12_GetParamFrame ==
    call.fn = "GetParam" =>
        /\ call.sent = <<32 + AddressOf(call.args[1])>>
        /\ Len(call.recv) = ByteLength(WidthOf(call.args[1]))
        /\ call.ret = BigEndianValue(call.recv)

(***************************************************************************)
(* C13.  For valid arguments the opcode byte of Run, Move, StepClock and   *)
(* GoTo_DIR has bit 0 equal to direction, the opcode byte of GoUntil and   *)
(* ReleaseSW has bit 0 equal to direction and bit 3 equal to action, and   *)
(* every other bit is that of the command's base opcode.                   *)
(***************************************************************************)
BaseOpcode(fn) ==
    CASE fn = "Run" -> 80
      [] fn = "StepClock" -> 88
      [] fn = "Move" -> 64
      [] fn = "GoTo_DIR" -> 104
      [] fn = "GoUntil" -> 66
      [] fn = "ReleaseSW" -> 112

\* bit i of w cleared
Without(w, i) == w - Bit(w, i) * (2 ^ i)

LoopedBack ==
    /\ call.fn = "send_recieve"
    /\ call.args[2] >= 1
    /\ call.recv = call.sent

C14_TransportRoundTrip ==
    LoopedBack =>
        LET v == call.args[1]
            n == call.args[2]
        IN  /\ Len(call.sent) = n
            /\ \A i \in 1..n : call.sent[i] = (v \div (256 ^ (n - i))) % 256
            /\ call.ret = v % (256 ^ n)
            /\ v < 256 ^ n => call.ret = v

\* a three-byte value whose bytes differ, sent and read back whole
C14_Witness ==
    /\ LoopedBack
    /\ call.args = <<70000, 3, 3>>
    /\ call.sent = <<1, 17, 112>>
    /\ call.ret = 70000

\* a value too wide for the transfer comes back cut
C14_WitnessTruncated ==
    /\ LoopedBack
    /\ call.args = <<70000, 2, 2>>
    /\ call.ret = 4464

(***************************************************************************)
(* C15.  A 'slew' request accepted in Idle (numeric angle, passing status  *)
(* word) sends GoTo with the microstep target computed from the angle and  *)
(* the axis's gear parameters and ends the tick in Busy; for angle 90,     *)
(* STEP_MODE bits 5, 1.8 steps per degree and teeth 1/1 the GoTo argument  *)
(* is 1600.                                                                *)
(***************************************************************************)
slew90 == <<"s", "l", "e", "w", "9", "0">>

\* a tick that begins in Idle with a passing status word: the request is looked at
Accepted(cmd_code) ==
    /\ TickedIn(_STATE_IDLE)
    /\ MaskPasses(tick.stat)
    /\ tick.cmd_code = cmd_code

C15_SlewSendsGoTo ==
    Accepted(slew90) =>
        /\ tick.exc = "none"
        /\ task._state = _STATE_BUSY
        /\ Count(tick.log, "GoTo") = 1
        /\ tick.reg % 8 = 5 =>
               \A i \in Calls(tick.log, "GoTo") : tick.log[i] = <<"GoTo", 1600>>

(***************************************************************************)
(* C16.  get_angle undoes the slew conversion: with ABS_POS at the GoTo    *)
(* target of an angle and STEP_MODE unchanged it returns that angle (1600  *)
(* microsteps at STEP_MODE bits 5 give 90 degrees); it sends only GetParam *)
(* reads and changes neither the lifecycle state nor last_error.           *)
(***************************************************************************)
C16_GetAngleInvertsSlew ==
    tick.op = "get_angle" =>
        /\ tick.exc = "none"
        /\ tick.reg = <<1600, 5>> => tick.ret = 90
        /\ \A i \in 1..Len(tick.log) : tick.log[i][1] = "GetParam"
        /\ task = tick.pre

(***************************************************************************)
(* C17.  A 'slew' or 'turn' request whose angle text is not a number sends *)
(* nothing to the driver beyond the tick's status check (no GetParam,      *)
(* SoftStop or GoTo) and leaves the axis in Idle with last_error           *)
(* unchanged.                                                              *)
(***************************************************************************)
\* requests whose text after the keyword is no number: 'slewup' and 'turn'
NonNumericAngles == { <<"s", "l", "e", "w", "u", "p">>, <<"t", "u", "r", "n">> }

C17_NonNumericAngleSendsNothing ==
    (\E c \in NonNumericAngles : Accepted(c)) =>
        /\ Names(tick.log) = <<"GetStatus">>
        /\ task._state = _STATE_IDLE
        /\ task._err = tick.pre._err
        /\ tick.exc = "none"

C17_Witness ==
    /\ Accepted(<<"s", "l", "e", "w", "u", "p">>)
    /\ Printed("invalid angle")
    /\ Names(tick.log) = <<"GetStatus">>
    /\ task._state = _STATE_IDLE

(***************************************************************************)
(* C18.  A 'track' request accepted in Idle sends SoftStop and then        *)
(* Run(1000, 1), with no other command between them, and ends the tick in  *)
(* Busy; that Run puts on the wire the opcode 0x51 and three bytes that    *)
(* spell 1000.                                                             *)
(***************************************************************************)
track == <<"t", "r", "a", "c", "k">>

C18_TrackStopsThenRuns ==
    Accepted(track) =>
        /\ tick.log = << <<"GetStatus">>, <<"SoftStop">>, <<"Run", 1000, 1>> >>
        /\ task._state = _STATE_BUSY
        /\ Run(1000, 1) = Result(0, <<81, 0, 3, 232>>)

(***************************************************************************)
(* C19.  A tick entered with a lifecycle state value that is none of Init, *)
(* Idle, Busy, Error sends HardHiZ to the driver and ends in Idle.         *)
(***************************************************************************)
C19_UnknownStateSendsHardHiZ ==
    (Ticked /\ tick.pre._state \in ForeignStates) =>
        /\ Count(tick.log, "HardHiZ") >= 1
        /\ task._state = _STATE_IDLE

(***************************************************************************)
(* C20.  In Idle with a passing status word, a request that matches no     *)
(* known request ('wait', and also 'init' and 'offset') leaves the         *)
(* lifecycle state and last_error unchanged and sends nothing but the      *)
(* status check's GetStatus.                                               *)
(***************************************************************************)
UnknownRequests ==
    { <<"w", "a", "i", "t">>, <<"i", "n", "i", "t">>,
      <<"o", "f", "f", "s", "e", "t">> }

C20_UnknownRequestIgnored ==
    (\E c \in UnknownRequests : Accepted(c)) =>
        /\ Names(tick.log) = <<"GetStatus">>
        /\ task._state = tick.pre._state
        /\ task._err = tick.pre._err
        /\ tick.exc = "none"

\* 'offset' begins with 'off' and is still not taken for it
C20_Witness ==
    /\ Accepted(<<"o", "f", "f", "s", "e", "t">>)
    /\ Names(tick.log) = <<"GetStatus">>
    /\ task._state = _STATE_IDLE

C21_MaskMatchesTable ==
    Ticked =>
        /\ err_mask_ok(tick.stat) <=> \A bit_addr \in 7..14 : flag_ok(tick.stat, bit_addr)
        /\ err_mask_fails(tick.stat) <=> ~err_mask_ok(tick.stat)

(***************************************************************************)
(* C25 (as claimed).  A set_param with a register name that is not in the  *)
(* table fails with a lookup error and has exchanged nothing with the      *)
(* chip (no opcode byte, no GetStatus) and left the axis as it was.        *)
(***************************************************************************)
C25_UnknownRegisterSendsNothing ==
    (tick.op = "set_param" /\ tick.exc = "KeyError") =>
        (tick.log = <<>> /\ task = tick.pre)

(***************************************************************************)
(* C26.  Every tick ends after at most eight driver commands, whatever the *)
(* status words answered.  A tick that begins in Busy sends one GetStatus  *)
(* and nothing else and returns; while the word's bit 1 is clear it        *)
(* returns 2 and the axis stays in Busy.                                   *)
(***************************************************************************)
C26_TickBounded ==
    Ticked =>
        /\ Len(tick.log) <= 8
        /\ tick.pre._state = _STATE_BUSY =>
               /\ tick.log = << <<"GetStatus">> >>
               /\ tick.exc = "none"
               /\ Bit(tick.stat, 1) = 0 => (tick.ret = 2 /\ task._state = _STATE_BUSY)

C26_Witness ==
    /\ TickedIn(_STATE_BUSY)
    /\ Bit(tick.stat, 1) = 0
    /\ tick.log = << <<"GetStatus">> >>
    /\ tick.ret = 2

(***************************************************************************)
(* C27 (as claimed).  A tick that leaves the axis in Error returns the     *)
(* recorded status word, which is not zero; a tick that leaves it in Init  *)
(* or Idle returns 0.                                                      *)
(***************************************************************************)
C27_ReturnsZeroIffNoError ==
    Ticked =>
        /\ task._state = _STATE_ERR =>
               (tick.exc = "none" /\ tick.ret = task._err /\ task._err # 0)
        /\ task._state \in {_STATE_INIT, _STATE_IDLE} =>
               (tick.exc = "none" /\ tick.ret = 0)

(***************************************************************************)
(* C22.  The two axes are independent: a step of main() changes the        *)
(* lifecycle state or the last error of an axis only if it is a run_task,  *)
(* set_param or shut_off call on that axis, and then the axis becomes what *)
(* the handler makes of its own prior state and the answers of its own     *)
(* chip, as in a program with that axis alone.                             *)
(***************************************************************************)
AloneResult(self, c) ==
    CASE c.op = "run_task" ->
             run_task(self, c.cmd_code, c.stat, c.reg, c.p1, c.p2, pyb).self
      [] c.op = "set_param" ->
             set_param(Begin(self), c.cmd_code[1], c.cmd_code[2], c.p1, c.p2).self
      [] c.op = "shut_off" -> shut_off(Begin(self)).self
      [] OTHER -> self

C24_HiZForEveryAxisBeforeExit ==
    (fw.pc = "exited" /\ fw.why \in {"KeyboardInterrupt", "run_task"}) =>
        fw.safed = Axes

(***************************************************************************)
(* The request a command line carries for an axis: the text after the      *)
(* prompt character is '<axis>:<request>' with alt for altitude and azi    *)
(* for azimuth.                                                            *)
(***************************************************************************)
Prefix == [altitude |-> <<"a", "l", "t", ":">>, azimuth |-> <<"a", "z", "i", ":">>]

Addresses(buf, a) ==
    Len(buf) >= 5 /\ SubSeq(buf, 2, 5) = Prefix[a]

RequestOf(buf) == SubSeq(buf, 6, Len(buf))

\* the step is the loop's run_task call on axis a
TickOf(a) ==
    /\ fw.pc = (IF a = "altitude" THEN "alt" ELSE "azi")
    /\ fw'.pc \notin {fw.pc, "shut_alt"}
    /\ fw'.last.op = "run_task"
    /\ fw'.last.axis = a

(***************************************************************************)
(* C28 (as claimed).  A tick of an axis receives the request of the        *)
(* command line addressed to that axis that the preceding pass of the loop *)
(* parsed, and 'wait' on every other tick.                                 *)
(***************************************************************************)
C28_ParsedLineElseWait ==
    [][\A a \in Axes :
           TickOf(a) =>
               fw'.last.cmd_code = IF Addresses(fw.parsed, a)
                                   THEN RequestOf(fw.parsed) ELSE wait]_vars

(***************************************************************************)
(* C28 (amended).  The first tick of each axis receives 'init'.  Every     *)
(* later tick of an axis receives the request of the command line          *)
(* addressed to that axis that the preceding pass of the loop parsed, and  *)
(* 'wait' if that pass parsed no line or a line for another target; so a   *)
(* parsed request reaches at most one tick, of the addressed axis, in the  *)
(* next pass.                                                              *)
(***************************************************************************)
C28_InitThenParsedLineElseWait ==
    [][\A a \in Axes :
           TickOf(a) =>
               fw'.last.cmd_code = IF fw.first THEN init
                                   ELSE IF Addresses(fw.parsed, a)
                                   THEN RequestOf(fw.parsed) ELSE wait]_vars

C28_Witness ==
    /\ fw.last.op = "run_task"
    /\ fw.last.axis = "azimuth"
    /\ fw.last.cmd_code = stop
    /\ fw.parsed = <<">", "a", "z", "i", ":", "s", "t", "o", "p">>
    /\ ~fw.first

AlignEntries(state, text) ==
    {i \in 1..Len(pi.align) : pi.align[i] = <<state, text>>}

Settled == {i \in 1..Len(pi.align) : pi.align[i][2] = "settled"}

C29_PromptOnlyAfterPolarisSlew ==
    \A i \in AlignEntries(STATE_ALIGN, "Is this position correct? [y/n]") :
        \E j \in AlignEntries(STATE_ALIGN, "azi:slew"),
           k \in AlignEntries(STATE_ALIGN, "alt:slew"), w \in Settled :
            j < k /\ k < w /\ w < i

(***************************************************************************)
(* C30 (as claimed).  In the altitude and azimuth calibration the          *)
(* '<axis>:home set' is written only after a wait in STATE_IMU_WAIT that   *)
(* ended after the last '<axis>:slew' written before it: no slew for the   *)
(* axis lies between the end of the wait and the 'home set'.               *)
(***************************************************************************)
CalSlew == [alt |-> <<STATE_CAL_ALT, "alt:slew ">>, azi |-> <<STATE_CAL_AZI, "azi:slew">>]

CalHomeSet ==
    [alt |-> <<STATE_CAL_ALT, "alt:home set">>, azi |-> <<STATE_CAL_AZI, "azi:home set">>]

C30_HomeSetOnlyAfterSettledSlew ==
    \A axis \in {"alt", "azi"} :
        \A i \in 1..Len(pi.align) :
            pi.align[i] = CalHomeSet[axis] =>
                \E w \in Settled :
                    /\ w < i
                    /\ \E j \in 1..(w - 1) : pi.align[j] = CalSlew[axis]
                    /\ \A j \in (w + 1)..(i - 1) : pi.align[j] # CalSlew[axis]

(***************************************************************************)
(* C31 (as claimed).  A run_task call made while _state is none of the     *)
(* eight defined states leaves the task in STATE_ERROR with _error set to  *)
(* ERROR_BAD_STATE.                                                        *)
(***************************************************************************)
DefinedStates == STATE_INIT..STATE_ERROR

C31_UnknownStateEntersError ==
    (pi.last.op = "run_task" /\ pi.last.pre._state \notin DefinedStates) =>
        (pi.self._state = STATE_ERROR /\ pi.self._error = ERROR_BAD_STATE)

(***************************************************************************)
(* C32.  A 'goto' command writes to the driver board only if both axes are *)
(* calibrated; a call sets an axis's calibrated flag only if it has        *)
(* written that axis's 'home set'; and whenever both flags are 1 the       *)
(* observer location is set.                                               *)
(***************************************************************************)
Texts(written) == {written[i][1] : i \in 1..Len(written)}

GotoCall ==
    /\ pi.last.op = "run_task"
    /\ pi.last.pre._state = STATE_CMD
    /\ pi.last.cmd # <<>>
    /\ pi.last.cmd[1] = "goto"

C32_GotoOnlyWhenCalibrated ==
    /\ (GotoCall /\ pi.written # <<>>) =>
           (pi.last.pre._alt_calibrated = 1 /\ pi.last.pre._azi_calibrated = 1)
    /\ (pi.self._alt_calibrated = 1 /\ pi.last.pre._alt_calibrated = 0) =>
           "alt:home set" \in Texts(pi.written)
    /\ (pi.self._azi_calibrated = 1 /\ pi.last.pre._azi_calibrated = 0) =>
           "azi:home set" \in Texts(pi.written)
    /\ (pi.self._alt_calibrated = 1 /\ pi.self._azi_calibrated = 1) => pi.self._obs

C32_Witness ==
    /\ GotoCall
    /\ pi.last.cmd = <<"goto", "moon">>
    /\ pi.written = << <<"azi:slew", 120>>, <<"alt:slew", 20>> >>
    /\ pi.self._alt_calibrated = 1 /\ pi.self._azi_calibrated = 1 /\ pi.self._obs

(***************************************************************************)
(* C39 (as claimed).  A 'goto' command whose target is not recognised      *)
(* writes nothing to the driver board and leaves the stored target angles  *)
(* as they were.                                                           *)
(***************************************************************************)
C39_UnknownTargetWritesNothing ==
    (GotoCall /\ pi.last.cmd[2] # "moon") =>
        /\ pi.written = <<>>
        /\ pi.self._alt = pi.last.pre._alt
        /\ pi.self._azi = pi.last.pre._azi

(***************************************************************************)
(* C40.  Whenever the task is in STATE_IMU_WAIT, _prev_state is            *)
(* STATE_CAL_ALT, STATE_CAL_AZI or STATE_ALIGN.  A call made in            *)
(* STATE_IMU_WAIT either stays there or, when the reading it takes and the *)
(* one before it pass the stillness test, resumes the state _prev_state    *)
(* held, with _prev_state set to STATE_IMU_WAIT.                           *)
(***************************************************************************)
WaitCall == pi.last.op = "run_task" /\ pi.last.pre._state = STATE_IMU_WAIT

mark == <<"m", "a", "r", "k">>

home == <<"h", "o", "m", "e">>

C33_GoMarkGoHomeEnterBusy ==
    ((Accepted(mark) \/ Accepted(home)) /\ tick.exc = "none") =>
        task._state = _STATE_BUSY

\* the nineteen commands of the driver
Commands ==
    {"Nop", "SetParam", "GetParam", "Run", "StepClock", "Move", "GoTo",
     "GoTo_DIR", "GoUntil", "ReleaseSW", "GoHome", "GoMark", "ResetPos",
     "ResetDevice", "SoftStop", "HardStop", "SoftHiZ", "HardHiZ", "GetStatus"}

\* the byte of a call that carries the opcode: the first one sent, except
\* that GetParam hands its opcode over as the low byte of a send_len-byte
\* value, which is the last byte sent
OpcodeByte(fn, sent) == IF fn = "GetParam" THEN sent[Len(sent)] ELSE sent[1]

\* every command with the opcode bytes it sends over its valid arguments
ValidOpcodes ==
    {<<c[1], OpcodeByte(c[1], c[2].sent)>> : c \in PlainCommands}
    \cup {<<"GetStatus", OpcodeByte("GetStatus", GetStatus(<<0, 0>>).sent)>>}
    \cup {<<"SetParam", OpcodeByte("SetParam", SetParam(r, 0).sent)>> :
              r \in DOMAIN REGISTER_DICT}
    \cup {<<"GetParam", OpcodeByte("GetParam", GetParam(r, <<>>).sent)>> :
              r \in {x \in DOMAIN REGISTER_DICT : REGISTER_DICT[x][2] > 0}}
    \cup {<<"GoTo", OpcodeByte("GoTo", GoTo(p).sent)>> : p \in Positions}
    \cup UNION {{<<"Run", OpcodeByte("Run", Run(v, d).sent)>> :
                    v \in {w \in Speeds : w >= 0}} : d \in {0, 1}}
    \cup {<<"StepClock", OpcodeByte("StepClock", StepClock(d).sent)>> :
              d \in {0, 1}}
    \cup UNION {{<<"Move", OpcodeByte("Move", Move(p, d).sent)>> :
                    p \in Positions} : d \in {0, 1}}
    \cup UNION {{<<"GoTo_DIR", OpcodeByte("GoTo_DIR", GoTo_DIR(p, d).sent)>> :
                    p \in Positions} : d \in {0, 1}}
    \cup UNION {{<<"GoUntil", OpcodeByte("GoUntil", GoUntil(0, a, d).sent)>> :
                    a \in {0, 1}} : d \in {0, 1}}
    \cup UNION {{<<"ReleaseSW", OpcodeByte("ReleaseSW", ReleaseSW(a, d).sent)>> :
                    a \in {0, 1}} : d \in {0, 1}}

(***************************************************************************)
(* C34.  The opcode byte identifies the command: the opcode byte a command *)
(* called with valid arguments puts on the wire is one that no other       *)
(* command sends for any valid arguments; in particular ReleaseSW never    *)
(* sends the opcode of GoHome or of GoMark.                                *)
(***************************************************************************)
C34_OpcodeIdentifiesCommand ==
    (call.fn \in Commands /\ call.ret # -1 /\ call.sent # <<>>) =>
        \A w \in ValidOpcodes :
            w[1] # call.fn => w[2] # OpcodeByte(call.fn, call.sent)

(***************************************************************************)
(* C38.  GoUntil with valid arguments transmits its speed: a call with     *)
(* another valid speed and the same action and direction puts different    *)
(* bytes on the wire.                                                      *)
(***************************************************************************)
C38_GoUntilSendsSpeed ==
    (call.fn = "GoUntil" /\ call.ret # -1 /\ call.args[1] >= 0) =>
        \A speed \in {v \in Speeds : v >= 0 /\ v # call.args[1]} :
            GoUntil(speed, call.args[2], call.args[3]).sent # call.sent

(***************************************************************************)
(* C37.  The two drivers agree on Run: for a direction of 0 or 1 and a     *)
(* speed of 0 to 2^22 - 1, Run of src/telescope_driver/L6470_driver.py     *)
(* puts on the wire the bytes Run of src/docs/L6470_driver.py puts there,  *)
(* the opcode 0x50 | direction and then the speed in three bytes; the      *)
(* speed never alters the opcode byte.                                     *)
(***************************************************************************)
C37_DriversAgreeOnRun ==
    (/\ call.fn = "telescope_driver.Run"
     /\ call.args[2] \in {0, 1}
     /\ call.args[1] \in 0..(2 ^ 22 - 1)) =>
        /\ call.ret = Run(call.args[1], call.args[2]).ret
        /\ call.sent = Run(call.args[1], call.args[2]).sent
        /\ call.sent[1] = 80 + call.args[2]

\* the requests of CmdCodes that carry a numeric angle
AngleRequests ==
    {c \in CmdCodes :
        \/ startswith(c, <<"s", "l", "e", "w">>)
               /\ float_ok(replace(c, <<"s", "l", "e", "w">>))
        \/ startswith(c, <<"t", "u", "r", "n">>)
               /\ float_ok(replace(c, <<"t", "u", "r", "n">>))}

MotionStarts == {"GoTo", "Run", "GoMark", "GoHome"}

(***************************************************************************)
(* C35.  A tick sends a motion-starting command (GoTo, Run, GoMark,        *)
(* GoHome) only if it begins in Idle and its status word passes the        *)
(* error-mask test.  A tick that begins in Init, Busy or Error sends       *)
(* GetStatus and nothing else, whatever the request, except that the tick  *)
(* of a successful Init sends one SoftHiZ after it.                        *)
(***************************************************************************)
C35_MotionOnlyFromIdle ==
    Ticked =>
        /\ (\E i \in 1..Len(tick.log) : tick.log[i][1] \in MotionStarts) =>
               (TickedIn(_STATE_IDLE) /\ MaskPasses(tick.stat))
        /\ tick.pre._state \in {_STATE_BUSY, _STATE_ERR} =>
               Names(tick.log) = <<"GetStatus">>
        /\ TickedIn(_STATE_INIT) =>
               \/ Names(tick.log) = <<"GetStatus">>
               \/ /\ Names(tick.log) = <<"GetStatus", "SoftHiZ">>
                  /\ task._state = _STATE_IDLE

\* a tick in Busy, which an accepted 'track' (Run sent) led to, is asked to
\* track again while the motor moves and only reads the status
C35_Witness ==
    /\ TickedIn(_STATE_BUSY)
    /\ tick.cmd_code = track
    /\ tick.was_moving
    /\ Names(tick.log) = <<"GetStatus">>
    /\ task._state = _STATE_BUSY

====
